---------------------------- MODULE Spec2Model ----------------------------
(***************************************************************************)
(* Office-hours queue server: the entry state machine of one ordered      *)
(* queue, the per-request database transaction opened by the transaction  *)
(* middleware, and the events the handlers publish on the bus.            *)
(*                                                                         *)
(* Each HTTP request runs in a slot.  A request is cut at the points      *)
(* where another request can interleave: the handler's reads and checks,  *)
(* its store write (which may wait for a row lock or for the unique       *)
(* index) followed by its publishes and response, and the middleware's    *)
(* commit or rollback.  The store is PostgreSQL at read committed: a      *)
(* statement sees what is committed plus its own transaction's writes,    *)
(* and a write to a row another open transaction wrote waits for it.      *)
(***************************************************************************)
EXTENDS Naturals, Integers, Sequences, FiniteSets, TLC

\* ----------------------------------------------------------------- bounds
MaxEntries == 2

Ids == 1..MaxEntries
\* Two requests in flight at a time.
Slots == {"r1", "r2"}

\* ------------------------------------------------------------- identities
Admins == {"a"}
Students == {"s1", "s2"}
Emails == Admins \cup Students
\* " " + first name of the helper (SetQueueEntryHelping, beingHelpedBy)
HelperName == " A"

\* HTTP status codes (net/http)
StatusOK == 200
StatusCreated == 201
StatusNoContent == 204
StatusBadRequest == 400
StatusForbidden == 403
StatusNotFound == 404
StatusConflict == 409
StatusInternalServerError == 500

VARIABLES db, req, config, clock, tables,
          conn, chan, hub, websocketCount, websocketCountByEmail, order, pubq,
          client

\* The websocket side: connections, subscription channels, the bus goroutine,
\* the presence counters, the events each connection is still owed, and the
\* publishes an HTTP handler has left; and, on the other end of the
\* sockets, the entries the front-end of each watcher holds.
wsvars == <<conn, chan, hub, websocketCount, websocketCountByEmail, order, pubq,
            client>>
\* The entry store and the requests on it.
httpvars == <<db, req, config, clock, tables>>
vars == <<db, req, config, clock, tables, wsvars>>

\* ------------------------------------------------------------------- rows
\* A row of queue_entries.  active is the nullable sentinel: "TRUE" on the
\* queue, "NULL" archived.  removed_at 0 and removed_by "" stand for NULL.
\* A description string, by what encoding/json and len() make of it: kind
\* is "strings" for a JSON array whose elements are strings or null (elems,
\* a null read as ""), "array" for a JSON array with another element,
\* "object", "null", and "text" for anything else; chars is its length in
\* characters and len in bytes.
Description(kind, elems, chars, len) ==
    [kind |-> kind, elems |-> elems, chars |-> chars, len |-> len]

NoDescription == Description("text", <<>>, 0, 0)

\* A location string and its length in bytes.
Location(text, len) == [text |-> text, len |-> len]

NoLocation == Location("", 0)

\* A row of queue_entries; last_removed_at is no column but the history of
\* the row: the removed_at of its latest archival, which a pin erases.
NoRow ==
    [exists |-> FALSE, email |-> "", active |-> "NULL", pinned |-> FALSE,
     helping |-> "", helped |-> FALSE, removed_by |-> "", removed_at |-> 0,
     priority |-> 0, name |-> "", location |-> NoLocation,
     description |-> NoDescription, last_removed_at |-> 0, queue |-> ""]

\* The queue of the request's URL, and another queue of the server.
QueueID == "Q"
OtherQueue == "Q2"

\* NOW() of a statement: the start time of its transaction.
NOW(r) == req[r].began

IsActive(row) == row.exists /\ row.active # "NULL"

\* What transaction r sees of row i: its own write, else the committed row.
View(r) == [i \in Ids |-> IF i \in req[r].locks THEN req[r].txw[i] ELSE db[i]]

\* ------------------------------------------------------------ store (db/)
GetQueueEntry(v, id, allowRemoved) ==
    v[id].exists /\ (allowRemoved \/ v[id].active # "NULL")

GetActiveQueueEntriesForUser(v, email) ==
    {i \in Ids : /\ v[i].exists /\ v[i].queue = QueueID
                 /\ v[i].email = email /\ v[i].active # "NULL"}

\* The half-hours of a day (48 in the program) and the characters a stored
\* schedule can hold: open, closed, preopen, and "x" for any other character.
HalfHours == 2
ScheduleChars == {"o", "c", "p", "x"}

\* The schedule rows of a queue, one per weekday, day 0 first.
Days == 7

\* The schedules a new queue has: open all week.
NewSchedules == [d \in 0..(Days - 1) |-> [h \in 1..HalfHours |-> "o"]]

\* SELECT schedule FROM schedules WHERE queue=$1 AND day=$2, the day being
\* time.Now().Weekday().
GetCurrentDaySchedule == tables.schedule[clock.weekday]
CurrentHalfHour == clock.half_hour

UserInQueueRoster(email) == email \in tables.roster

\* COUNT(*) of active entries whose email is a teammate of email.
TeammateInQueue(v, email) ==
    \E i \in Ids : /\ v[i].exists /\ v[i].active # "NULL"
                   /\ v[i].queue = QueueID
                   /\ <<email, v[i].email>> \in tables.teammates

\* MAX(removed_at) of the user's archived entries that were helped and
\* removed by somebody else; 0 stands for NULL.
LastHelpedTime_AnyRemover(v, email) ==
    LET t == {v[i].removed_at : i \in {j \in Ids :
                 /\ v[j].exists /\ v[j].email = email /\ v[j].active = "NULL"
                 /\ v[j].queue = QueueID
                 /\ v[j].removed_by # ""
                 /\ v[j].helped}}
    IN IF t = {} THEN 0 ELSE CHOOSE m \in t : \A n \in t : n <= m

LastHelpedTime(v, email) ==
    LET t == {v[i].removed_at : i \in {j \in Ids :
                 /\ v[j].exists /\ v[j].email = email /\ v[j].active = "NULL"
                 /\ v[j].queue = QueueID
                 /\ v[j].removed_by # "" /\ v[j].removed_by # email
                 /\ v[j].helped}}
    IN IF t = {} THEN 0 ELSE CHOOSE m \in t : \A n \in t : n <= m

\* The end of the cooldown error, "Try again in ...": wait is
\* int(wait.Seconds()), the whole seconds of time.Until(last + cooldown);
\* int(wait.Minutes()) selects the wording.
TryAgainIn(wait) ==
    IF wait \div 60 = 0 THEN ToString(wait) \o " seconds"
    ELSE IF wait \div 60 = 1 THEN "a minute"
    ELSE ToString(wait \div 60) \o " minutes"

\* "ok", or the error CanAddEntry returns with false (the cooldown error
\* without its end, which is CooldownWait).
CanAddEntry(v, email) ==
    IF email \in Admins THEN "ok"
    ELSE IF config.scheduled /\ GetCurrentDaySchedule[CurrentHalfHour] = "c"
    THEN "the queue is closed"
    ELSE IF ~config.scheduled /\ ~config.manual_open
    THEN "the queue is closed"
    ELSE IF config.prevent_unregistered /\ ~UserInQueueRoster(email)
    THEN "you are not in the course roster"
    ELSE IF config.prevent_groups /\ TeammateInQueue(v, email)
    THEN "your teammate is in the queue"
    ELSE IF LastHelpedTime(v, email) # 0
            /\ clock.now - LastHelpedTime(v, email) < config.cooldown
    THEN "you are attempting to sign up too soon"
    ELSE "ok"

\* The cooldown reads the clock twice: time.Since(last) decides the refusal
\* and time.Until(last + cooldown) measures the wait. late says that the
\* clock moved on by a fraction of a second between the two reads, which
\* takes one off the whole seconds of the wait.
CooldownWait(v, email, late) ==
    IF CanAddEntry(v, email) = "you are attempting to sign up too soon"
    THEN TryAgainIn(LastHelpedTime(v, email) + config.cooldown - clock.now
                       - (IF late THEN 1 ELSE 0))
    ELSE ""

\* The smallest id an entry created today can have (a KSUID made of the
\* start of today and a zero payload); ids grow with the time of creation.
firstIDOfDay == clock.first_id_of_day

\* The rows of the email counted by "id >= firstIDOfDay AND removed_by !=
\* email AND helped": a NULL removed_by is not counted.
HelpedToday_AnyRemover(v, email) ==
    {i \in Ids : /\ v[i].exists /\ v[i].email = email /\ i >= firstIDOfDay
                 /\ v[i].queue = QueueID
                 /\ v[i].removed_by # ""
                 /\ v[i].helped}

HelpedToday(v, email) ==
    {i \in Ids : /\ v[i].exists /\ v[i].email = email /\ i >= firstIDOfDay
                 /\ v[i].queue = QueueID
                 /\ v[i].removed_by # "" /\ v[i].removed_by # email
                 /\ v[i].helped}

GetEntryPriority(v, email) ==
    IF ~config.prioritize_new THEN 0
    ELSE IF HelpedToday(v, email) # {} THEN 0
    ELSE IF ~config.prevent_groups_boost THEN 1
    ELSE IF \E t \in Emails : /\ <<email, t>> \in tables.teammates
                              /\ HelpedToday(v, t) # {}
    THEN 0
    ELSE 1

\* The display name of the session (nameContextKey), one per user.
Name(email) == email

\* The decoded request body of a signup or an update: the fields the
\* handlers use and fields of QueueEntry they do not.
Body(description, location) ==
    [decodes |-> TRUE, description |-> description, location |-> location,
     priority |-> 1, pinned |-> TRUE, helping |-> HelperName]

\* A body json.Decode fails on.
BadBody == [Body(NoDescription, NoLocation) EXCEPT !.decodes = FALSE]

\* A short plain description at a short location.
PlainBody == Body(Description("text", <<>>, 5, 5), Location("l1", 2))

NoBody == Body(NoDescription, NoLocation)

db_AddQueueEntry(email, priority, body) ==
    [NoRow EXCEPT !.exists = TRUE, !.queue = QueueID,
                  !.email = email, !.active = "TRUE",
                  !.priority = priority, !.name = Name(email),
                  !.location = body.location,
                  !.description = body.description]

\* UPDATE ... SET name, location, description (and the map coordinates of
\* the location) of the row.
db_UpdateQueueEntry_FromBody(row, name, body) ==
    [row EXCEPT !.name = name, !.location = body.location,
                !.description = body.description, !.priority = body.priority,
                !.pinned = body.pinned, !.helping = body.helping]

db_UpdateQueueEntry(row, name, body) ==
    [row EXCEPT !.name = name, !.location = body.location,
                !.description = body.description]

CanRemoveQueueEntry_AnyUser(v, id, email) ==
    \/ email \in Admins
    \/ v[id].exists

\* A course admin, or SELECT COUNT(*) ... WHERE id=$1 AND email=$2 > 0.
CanRemoveQueueEntry(v, id, email) ==
    \/ email \in Admins
    \/ v[id].exists /\ v[id].email = email

db_RemoveQueueEntry_KeepPinned(row, remover, now) ==
    [row EXCEPT !.active = "NULL", !.helping = "",
                !.removed_at = now, !.removed_by = remover, !.helped = TRUE,
                !.last_removed_at = now]

db_RemoveQueueEntry(row, remover, now) ==
    [row EXCEPT !.pinned = FALSE, !.active = "NULL", !.helping = "",
                !.removed_at = now, !.removed_by = remover, !.helped = TRUE,
                !.last_removed_at = now]

db_PinQueueEntry_ActiveFalse(row) ==
    [row EXCEPT !.active = "FALSE", !.removed_at = 0, !.removed_by = "",
                !.helped = FALSE, !.pinned = TRUE]

db_PinQueueEntry(row) ==
    [row EXCEPT !.active = "TRUE", !.removed_at = 0, !.removed_by = "",
                !.helped = FALSE, !.pinned = TRUE]

db_SetQueueEntryHelping(row, helping) == [row EXCEPT !.helping = helping]

db_ClearQueueEntries(row, remover, now) ==
    [row EXCEPT !.active = "NULL", !.removed_at = now, !.removed_by = remover,
                !.last_removed_at = now,
                !.pinned = FALSE, !.helped = FALSE]

\* ------------------------------------------------- locks and unique index
OpenTx(r) == req[r].pc \in {"write", "mw"}

LockedByOther(r, i) == \E r2 \in Slots \ {r} : i \in req[r2].locks

\* The unique index on (queue, email, active); NULLs never collide.
SameKey(a, b) ==
    /\ a.exists /\ b.exists
    /\ a.active # "NULL" /\ a.active = b.active
    /\ a.email = b.email /\ a.queue = b.queue

\* A committed, settled row other than i already holds the key of nr.
UniqueViolation(r, i, nr) ==
    \E j \in Ids \ {i} : SameKey(View(r)[j], nr) /\ ~LockedByOther(r, j)

\* The key of nr is held by a row another open transaction wrote or is
\* changing: the index insertion waits for that transaction to end.
UniqueWait(r, i, nr) ==
    \E j \in Ids \ {i} :
        \/ SameKey(db[j], nr) /\ LockedByOther(r, j)
        \/ \E r2 \in Slots \ {r} : j \in req[r2].locks /\ SameKey(req[r2].txw[j], nr)

\* ------------------------------------------------------------------ events
Topic(class, email) == [class |-> class, email |-> email]
QueueTopicAdmin == Topic("admin", "")
QueueTopicNonPrivileged == Topic("nonpriv", "")
QueueTopicGeneric == Topic("generic", "")
QueueTopicEmail(email) == Topic("email", email)

\* WS(e, d) published on a topic; full tells the full payload from the
\* anonymized one, who is the email a QUEUE_CLEAR carries.
WS(e, id, full, who, topic) ==
    [e |-> e, id |-> id, full |-> full, who |-> who, topic |-> topic]

\* QueueWebsocket: the topics a connection subscribes to.
Topics(admin, email) ==
    {QueueTopicGeneric}
        \cup (IF admin THEN {QueueTopicAdmin} ELSE {QueueTopicNonPrivileged})
        \cup (IF email # "" THEN {QueueTopicEmail(email)} ELSE {})

\* Who may connect: the logged-in users and the anonymous visitor.
Viewers == Emails \cup {""}

\* The events of evs a connection of the viewer is sent, in publish order.
Received(viewer, evs) ==
    SelectSeq(evs, LAMBDA m : m.topic \in Topics(viewer \in Admins, viewer))

\* ---------------------------------------------------------------- requests
\* The body of a GET /queues/Q response: the entries and the open flag.
NoResp == [queue |-> <<>>, stack |-> <<>>, open |-> FALSE]

IdleReq ==
    [pc |-> "idle", op |-> "", who |-> "", id |-> 0,
     herr |-> "nil", status |-> 0, rd |-> NoRow, locks |-> {},
     txw |-> [i \in Ids |-> NoRow], pubd |-> <<>>, resp |-> NoResp,
     msg |-> "", wait |-> "", body |-> NoBody, fault |-> "",
     began |-> 0]

\* The handler is entered: the transaction is open, the store write is next.
Started(op, who, id) ==
    [IdleReq EXCEPT !.pc = "write", !.op = op, !.who = who, !.id = id,
                    !.began = clock.now]

\* E.ServeHTTP: the error a handler returns is stored in the request's error
\* slot; a StatusError is answered with its status, any other error with 500.
Rejected(rq, kind, status) ==
    [rq EXCEPT !.herr = kind, !.status = status, !.pc = "mw", !.rd = NoRow,
               !.pubd = <<>>]

\* EnsureCourseAdmin (route middleware) answers a non-admin with 403 through
\* errorMessage; the handler never runs and the error slot stays nil.
EnsureCourseAdmin(rq) ==
    IF rq.who \in Admins THEN rq
    ELSE [rq EXCEPT !.status = StatusForbidden, !.pc = "mw", !.id = 0]

\* ------------------------------------------------------- websocket state
\* Two websocket connections at a time.
Conns == {"c1", "c2"}

\* The capacity of every subscription channel: 5 in pubsub.New(5), scaled
\* down here; what is checked does not depend on the number, only on the
\* channel being bounded and holding more than one message.
Capacity == 2

\* A connection slot: pc is the position of the handler, then of the read
\* goroutine; first/last are the locals of the counter sections, kept until
\* they are used; writer is the write goroutine.
NoConn ==
    [pc |-> "free", admin |-> FALSE, email |-> "", first |-> FALSE,
     last |-> FALSE, writer |-> "none"]
NoMsg == [e |-> ""]

\* The front-ends followed: one of the admin, one of the student s1. Of
\* every entry a front-end holds either the full row or the anonymized one.
Watchers == {"a", "s1"}
NoEntries == [i \in Ids |-> "none"]

\* The state a new server starts in: an empty open queue, nobody connected.
InitWebsockets ==
    /\ conn = [c \in Conns |-> NoConn]
    /\ chan = [c \in Conns |-> <<>>]
    /\ hub = [msg |-> NoMsg, todo |-> {}]
    /\ websocketCount = 0
    /\ websocketCountByEmail = [e \in {} |-> 0]
    /\ order = [c \in Conns |-> <<>>]
    /\ pubq = <<>>
    /\ client = [w \in Watchers |-> NoEntries]

Init ==
    /\ db = [i \in Ids |-> NoRow]
    /\ req = [r \in Slots |-> IdleReq]
    /\ config = [scheduled |-> FALSE, manual_open |-> TRUE, prioritize_new |-> FALSE,
                 prevent_unregistered |-> FALSE, prevent_groups |-> FALSE,
                 prevent_groups_boost |-> FALSE, cooldown |-> 0,
                 prompts |-> <<>>]
    /\ clock = [now |-> 1, half_hour |-> 1, first_id_of_day |-> 1,
                weekday |-> 0]
    /\ tables = [schedule |-> NewSchedules, roster |-> {},
                 teammates |-> {}]
    /\ InitWebsockets

\* Rows that exist or are being inserted, and the inserts already admitted:
\* a signup is admitted only while an id is left for it.
UsedIds == {i \in Ids : db[i].exists \/ \E r \in Slots : i \in req[r].locks}
PendingInserts == {r \in Slots : req[r].op = "signup" /\ req[r].pc = "write"}
FreeId == CHOOSE i \in Ids \ UsedIds : \A j \in Ids \ UsedIds : i <= j

\* ------------------------------------------------ handlers: reads and checks
maxDescriptionLength == 1500
maxLocationLength == 300

\* json.Unmarshal into a []string: a JSON array of strings or nulls, or null.
UnmarshalStrings(description) == description.kind \in {"strings", "null"}

\* The slice json.Unmarshal leaves: the elements, none for null.
jsonArray(description) ==
    IF description.kind = "strings" THEN description.elems ELSE <<>>

\* json.Unmarshal into a map[string]interface{}: a JSON object, or null.
UnmarshalMap(description) == description.kind \in {"object", "null"}

\* strings.TrimSpace of an element: "" for an empty or blank one.
TrimSpace(response) == IF response \in {"", " "} THEN "" ELSE response

\* "nil", or the error of the description check.
validateQueueEntryDescription(description, prompts) ==
    IF description.len > maxDescriptionLength
    THEN "description is too long (max " \o ToString(maxDescriptionLength)
            \o " characters)"
    ELSE IF Len(prompts) > 0
    THEN IF ~UnmarshalStrings(description)
         THEN "hmm, got description in unexpected format. Try clear cache and refresh?"
         ELSE IF Len(jsonArray(description)) # Len(prompts)
         THEN "wrong number of prompt responses, expected "
                 \o ToString(Len(prompts)) \o " got "
                 \o ToString(Len(jsonArray(description)))
         ELSE IF \E i \in DOMAIN jsonArray(description) :
                    TrimSpace(jsonArray(description)[i]) = ""
         THEN "empty response for prompt"
         ELSE "nil"
    ELSE IF UnmarshalStrings(description)
    THEN "oops, JSON array-like string is not allowed as description"
    ELSE IF UnmarshalMap(description)
    THEN "oops, JSON object-like string is not allowed as description"
    ELSE "nil"

\* The body checks of signup and update: "nil", or the message of the 400.
DecodeQueueEntry(body, name) ==
    IF ~body.decodes
    THEN "We couldn't read the queue entry from the request body."
    ELSE IF name = "" \/ body.description.len = 0
    THEN "It looks like you left out some fields in the queue entry!"
    ELSE IF body.location.len > maxLocationLength
    THEN "Location field is too long (max " \o ToString(maxLocationLength)
            \o " characters)"
    ELSE validateQueueEntryDescription(body.description, config.prompts)

\* POST /queues/Q/entries, up to the insert.
AddQueueEntry(r, who, body) ==
    /\ req[r].pc = "idle"
    /\ \E late \in BOOLEAN :
       LET rq == [Started("signup", who, 0) EXCEPT !.body = body] IN
       req' = [req EXCEPT ![r] =
          IF GetActiveQueueEntriesForUser(db, who) # {}
          THEN Rejected(rq, "StatusError", StatusConflict)
          ELSE IF CanAddEntry(db, who) # "ok"
          THEN [Rejected(rq, "StatusError", StatusForbidden)
                   EXCEPT !.msg = CanAddEntry(db, who),
                          !.wait = CooldownWait(db, who, late)]
          ELSE IF DecodeQueueEntry(body, Name(who)) # "nil"
          THEN [Rejected(rq, "StatusError", StatusBadRequest)
                   EXCEPT !.msg = DecodeQueueEntry(body, Name(who))]
          ELSE [rq EXCEPT !.rd = db_AddQueueEntry(who, GetEntryPriority(db, who),
                                                  body)]]
    /\ req'[r].pc = "write" =>
          Cardinality(UsedIds) + Cardinality(PendingInserts) < MaxEntries
    /\ UNCHANGED <<db, config, clock, tables, wsvars>>

\* PUT /queues/Q/entries/{id}, up to the update.
UpdateQueueEntry(r, who, id, body) ==
    /\ req[r].pc = "idle"
    /\ LET rq == [Started("update", who, id) EXCEPT !.body = body] IN
       req' = [req EXCEPT ![r] =
          IF ~GetQueueEntry(db, id, FALSE)
          THEN Rejected(rq, "StatusError", StatusNotFound)
          ELSE IF db[id].email # who
          THEN Rejected(rq, "StatusError", StatusForbidden)
          ELSE IF DecodeQueueEntry(body, Name(who)) # "nil"
          THEN [Rejected(rq, "StatusError", StatusBadRequest)
                   EXCEPT !.msg = DecodeQueueEntry(body, Name(who))]
          ELSE rq]
    /\ UNCHANGED <<db, config, clock, tables, wsvars>>

\* DELETE /queues/Q/entries/{id}, up to the update.
RemoveQueueEntry(r, who, id) ==
    /\ req[r].pc = "idle"
    /\ LET rq == Started("remove", who, id) IN
       req' = [req EXCEPT ![r] =
          IF ~CanRemoveQueueEntry(db, id, who)
          THEN Rejected(rq, "StatusError", StatusForbidden)
          ELSE rq]
    /\ UNCHANGED <<db, config, clock, tables, wsvars>>

\* POST /queues/Q/entries/{id}/pin, up to the update.
PinQueueEntry(r, who, id) ==
    /\ req[r].pc = "idle"
    /\ LET rq == EnsureCourseAdmin(Started("pin", who, id)) IN
       req' = [req EXCEPT ![r] =
          IF rq.pc = "mw" THEN rq
          ELSE IF ~GetQueueEntry(db, id, TRUE)
          THEN Rejected(rq, "StatusError", StatusNotFound)
          ELSE IF /\ db[id].active = "NULL"
                  /\ GetActiveQueueEntriesForUser(db, db[id].email) # {}
          THEN Rejected(rq, "StatusError", StatusConflict)
          ELSE [rq EXCEPT !.rd = [db[id] EXCEPT !.pinned = TRUE]]]
    /\ UNCHANGED <<db, config, clock, tables, wsvars>>

\* PUT /queues/Q/entries/{id}/helping?helping=true|false, up to the update.
SetQueueEntryHelping(r, who, id, helping) ==
    /\ req[r].pc = "idle"
    /\ LET rq == EnsureCourseAdmin(Started("helping", who, id)) IN
       req' = [req EXCEPT ![r] =
          IF rq.pc = "mw" THEN rq
          ELSE IF ~GetQueueEntry(db, id, TRUE)
          THEN Rejected(rq, "StatusError", StatusNotFound)
          ELSE [rq EXCEPT !.rd =
                  [db[id] EXCEPT !.helping = IF helping THEN HelperName ELSE ""]]]
    /\ UNCHANGED <<db, config, clock, tables, wsvars>>

\* DELETE /queues/Q/entries, up to the update.
ClearQueueEntries(r, who) ==
    /\ req[r].pc = "idle"
    /\ req' = [req EXCEPT ![r] = EnsureCourseAdmin(Started("clear", who, 0))]
    /\ UNCHANGED <<db, config, clock, tables, wsvars>>

\* ------------------------------------------------------------------ events
Published(op, who, id, email) ==
    IF op = "signup" THEN
        << WS("ENTRY_CREATE", id, TRUE, "", QueueTopicAdmin),
           WS("ENTRY_CREATE", id, FALSE, "", QueueTopicNonPrivileged),
           WS("ENTRY_UPDATE", id, TRUE, "", QueueTopicEmail(who)) >>
    ELSE IF op = "remove" THEN
        << WS("ENTRY_REMOVE", id, TRUE, "", QueueTopicAdmin),
           WS("ENTRY_REMOVE", id, FALSE, "", QueueTopicNonPrivileged) >>
    ELSE IF op = "pin" THEN
        << WS("STACK_REMOVE", id, TRUE, "", QueueTopicAdmin),
           WS("ENTRY_CREATE", id, TRUE, "", QueueTopicAdmin),
           WS("ENTRY_CREATE", id, FALSE, "", QueueTopicNonPrivileged),
           WS("ENTRY_UPDATE", id, TRUE, "", QueueTopicEmail(who)),
           WS("ENTRY_PINNED", id, TRUE, "", QueueTopicEmail(email)) >>
    ELSE IF op = "update" THEN
        << WS("ENTRY_UPDATE", id, TRUE, "", QueueTopicAdmin),
           WS("ENTRY_UPDATE", id, TRUE, "", QueueTopicEmail(who)) >>
    ELSE IF op = "helping" THEN
        << WS("ENTRY_UPDATE", id, FALSE, "", QueueTopicNonPrivileged),
           WS("ENTRY_UPDATE", id, TRUE, "", QueueTopicAdmin),
           WS("ENTRY_UPDATE", id, TRUE, "", QueueTopicEmail(email)),
           WS("ENTRY_HELPING", id, TRUE, "", QueueTopicEmail(email)) >>
    ELSE
        << WS("QUEUE_CLEAR", 0, TRUE, who, QueueTopicAdmin),
           WS("QUEUE_CLEAR", 0, FALSE, "", QueueTopicNonPrivileged) >>

SuccessStatus(op) == IF op = "signup" THEN StatusCreated ELSE StatusNoContent

\* -------------------- handlers: the store statement, publishes and response
\* The statement failed: the handler returns the error before any publish.
StoreFailed(r, kind, status) ==
    req' = [req EXCEPT ![r].herr = kind, ![r].status = status, ![r].pc = "mw"]

\* The statement wrote rows: the handler publishes its events (s.ps.Pub) and
\* returns s.sendResponse(...), whose error, if any, is the handler's error.
Stored(r, id, rows, sendOk) ==
    LET rq == req[r] IN
    req' = [req EXCEPT ![r] =
        [rq EXCEPT !.id = id,
                   !.locks = DOMAIN rows,
                   !.txw = [i \in Ids |-> IF i \in DOMAIN rows THEN rows[i] ELSE NoRow],
                   !.pubd = Published(rq.op, rq.who, id, rq.rd.email),
                   !.rd = NoRow,
                   !.herr = IF sendOk THEN "nil" ELSE "error",
                   !.status = IF sendOk THEN SuccessStatus(rq.op)
                              ELSE StatusInternalServerError,
                   !.pc = "mw"]]

\* The insert whose pq error is returned as it is (no errors.As mapping).
StoreAddQueueEntry_NoConflictMapping(r, sendOk) ==
    /\ req[r].pc = "write" /\ req[r].op = "signup"
    /\ LET i == FreeId
           nr == req[r].rd
       IN IF UniqueViolation(r, i, nr)
          THEN StoreFailed(r, "error", StatusInternalServerError)
          ELSE ~UniqueWait(r, i, nr) /\ Stored(r, i, i :> nr, sendOk)
    /\ UNCHANGED <<db, config, clock, tables, wsvars>>

\* INSERT INTO queue_entries ... RETURNING *; a pq error is answered 409.
StoreAddQueueEntry(r, sendOk) ==
    /\ req[r].pc = "write" /\ req[r].op = "signup"
    /\ LET i == FreeId
           nr == req[r].rd
       IN IF UniqueViolation(r, i, nr)
          THEN StoreFailed(r, "StatusError", StatusConflict)
          ELSE ~UniqueWait(r, i, nr) /\ Stored(r, i, i :> nr, sendOk)
    /\ UNCHANGED <<db, config, clock, tables, wsvars>>

\* The update without "active IS NOT NULL": an archived row is archived again.
StoreRemoveQueueEntry_AnyRow(r, sendOk) ==
    /\ req[r].pc = "write" /\ req[r].op = "remove"
    /\ LET i == req[r].id IN
       IF ~db[i].exists
       THEN StoreFailed(r, "StatusError", StatusNotFound)
       ELSE /\ ~LockedByOther(r, i)
            /\ Stored(r, i, i :> db_RemoveQueueEntry(db[i], req[r].who, NOW(r)), sendOk)
    /\ UNCHANGED <<db, config, clock, tables, wsvars>>

\* UPDATE ... WHERE active IS NOT NULL AND id=$2 RETURNING *; no row is
\* sql.ErrNoRows, answered 404.
StoreRemoveQueueEntry(r, sendOk) ==
    /\ req[r].pc = "write" /\ req[r].op = "remove"
    /\ LET i == req[r].id IN
       IF ~IsActive(db[i])
       THEN StoreFailed(r, "StatusError", StatusNotFound)
       ELSE /\ ~LockedByOther(r, i)
            /\ Stored(r, i, i :> db_RemoveQueueEntry(db[i], req[r].who, NOW(r)), sendOk)
    /\ UNCHANGED <<db, config, clock, tables, wsvars>>

\* UPDATE ... WHERE id=$6 AND active IS NOT NULL; no row is no error.
StoreUpdateQueueEntry(r, sendOk) ==
    /\ req[r].pc = "write" /\ req[r].op = "update"
    /\ LET i == req[r].id IN
       IF ~IsActive(db[i])
       THEN Stored(r, i, [j \in {} |-> NoRow], sendOk)
       ELSE /\ ~LockedByOther(r, i)
            /\ Stored(r, i, i :> db_UpdateQueueEntry(db[i], Name(req[r].who),
                                                     req[r].body), sendOk)
    /\ UNCHANGED <<db, config, clock, tables, wsvars>>

\* UPDATE ... WHERE id=$1; the handler returns a store error as it is.
StorePinQueueEntry(r, sendOk) ==
    /\ req[r].pc = "write" /\ req[r].op = "pin"
    /\ LET i == req[r].id
           nr == db_PinQueueEntry(db[i])
       IN /\ ~LockedByOther(r, i)
          /\ IF UniqueViolation(r, i, nr)
             THEN StoreFailed(r, "error", StatusInternalServerError)
             ELSE ~UniqueWait(r, i, nr) /\ Stored(r, i, i :> nr, sendOk)
    /\ UNCHANGED <<db, config, clock, tables, wsvars>>

\* UPDATE queue_entries SET helping=$1 WHERE id=$2
StoreSetQueueEntryHelping(r, sendOk) ==
    /\ req[r].pc = "write" /\ req[r].op = "helping"
    /\ LET i == req[r].id IN
       /\ ~LockedByOther(r, i)
       /\ Stored(r, i, i :> db_SetQueueEntryHelping(db[i], req[r].rd.helping), sendOk)
    /\ UNCHANGED <<db, config, clock, tables, wsvars>>

\* UPDATE ... WHERE active IS NOT NULL AND queue=$2
StoreClearQueueEntries(r, sendOk) ==
    /\ req[r].pc = "write" /\ req[r].op = "clear"
    /\ LET hit == {i \in Ids : IsActive(db[i]) /\ db[i].queue = QueueID} IN
       /\ \A i \in hit : ~LockedByOther(r, i)
       /\ Stored(r, 0, [i \in hit |-> db_ClearQueueEntries(db[i], req[r].who, NOW(r))], sendOk)
    /\ UNCHANGED <<db, config, clock, tables, wsvars>>

\* ------------------------------------------------- transaction middleware
transaction_CommitAlways(r, commitOk) ==
    /\ req[r].pc = "mw"
    /\ db' = View(r)
    /\ req' = [req EXCEPT ![r] = IdleReq]
    /\ UNCHANGED <<config, clock, tables, wsvars>>

\* After next.ServeHTTP: tx.Rollback() when the error slot is set, else
\* tx.Commit(); a commit that fails stores nothing and is only logged.
transaction(r, commitOk) ==
    /\ req[r].pc = "mw"
    /\ db' = IF req[r].herr = "nil" /\ commitOk THEN View(r) ELSE db
    /\ req' = [req EXCEPT ![r] = IdleReq]
    /\ UNCHANGED <<config, clock, tables, wsvars>>

\* ---------------------------------------------------------- specifications
\* The student who signs up while two requests are in flight.
Signers == {"s1"}

Handlers(r, sendOk) ==
    \/ \E who \in Signers : AddQueueEntry(r, who, PlainBody)
    \/ \E who \in Emails, id \in Ids : RemoveQueueEntry(r, who, id)
    \/ \E who \in Emails, id \in Ids : PinQueueEntry(r, who, id)
    \/ \E who \in Emails, id \in Ids, helping \in BOOLEAN :
          SetQueueEntryHelping(r, who, id, helping)
    \/ \E who \in Emails : ClearQueueEntries(r, who)
    \/ StoreAddQueueEntry(r, sendOk)
    \/ StoreRemoveQueueEntry(r, sendOk)
    \/ StorePinQueueEntry(r, sendOk)
    \/ StoreSetQueueEntryHelping(r, sendOk)
    \/ StoreClearQueueEntries(r, sendOk)

\* Every response is written and every commit succeeds.
Next == \E r \in Slots : Handlers(r, TRUE) \/ transaction(r, TRUE)

Spec == Init /\ [][Next]_vars

\* A response write or a commit may fail.
NextFaults ==
    \E r \in Slots, ok \in BOOLEAN : Handlers(r, ok) \/ transaction(r, ok)

SpecFaults == Init /\ [][NextFaults]_vars

\* The handler panics before it returns: the panic unwinds through the
\* transaction middleware, which has no deferred call, so neither Commit
\* nor Rollback runs; recoverMiddleware, outside of it, recovers and
\* answers 500. The request is over, its transaction stays as it was.
Panic(r) ==
    /\ req[r].pc = "write"
    /\ req' = [req EXCEPT ![r].pc = "recovered",
                          ![r].status = StatusInternalServerError,
                          ![r].rd = NoRow]
    /\ UNCHANGED <<db, config, clock, tables, wsvars>>

\* The steps that take a started request to its end: the statement, the
\* return through the middleware.
RequestStep(r) ==
    \/ StoreAddQueueEntry(r, TRUE)
    \/ StoreRemoveQueueEntry(r, TRUE)
    \/ StorePinQueueEntry(r, TRUE)
    \/ StoreSetQueueEntryHelping(r, TRUE)
    \/ StoreClearQueueEntries(r, TRUE)
    \/ transaction(r, TRUE)

NextPanic ==
    \E r \in Slots : Handlers(r, TRUE) \/ transaction(r, TRUE) \/ Panic(r)

\* Every request goroutine keeps running; a statement that waits for a row
\* lock gets the lock when its turn comes (SF).
SpecPanic ==
    /\ Init
    /\ [][NextPanic]_vars
    /\ \A r \in Slots : SF_vars(RequestStep(r))

\* ------------------------------------------------------ the bus (pubsub)
\* A Go map read: the zero value for a missing key.
Get(m, k) == IF k \in DOMAIN m THEN m[k] ELSE 0
Put(m, k, v) == [x \in DOMAIN m \cup {k} |-> IF x = k THEN v ELSE m[x]]
Delete(m, k) == [x \in DOMAIN m \ {k} |-> m[x]]

\* The connection's channel is registered with the bus from Sub to Unsub.
Subscribed(c) == conn[c].pc \in {"subbed", "counted", "online", "open", "unsub"}
Subscribers(topic) ==
    {c \in Conns : Subscribed(c) /\ topic \in Topics(conn[c].admin, conn[c].email)}

\* conn.Close() has not been called yet.
SocketOpen(c) ==
    conn[c].pc \in {"subbed", "counted", "online", "open", "unsub", "close"}

\* The bus goroutine is back in its command loop.
HubIdle == hub.todo = {}

\* ps.Pub(msg, topic): the command is handed to the bus goroutine, which then
\* sends msg to every channel subscribed to the topic. The call returns when
\* the goroutine has taken the command.
Pub(m) ==
    /\ HubIdle
    /\ hub' = IF Subscribers(m.topic) = {} THEN [msg |-> NoMsg, todo |-> {}]
              ELSE [msg |-> m, todo |-> Subscribers(m.topic)]
    /\ order' = [c \in Conns |->
                    IF c \in Subscribers(m.topic) THEN Append(order[c], m)
                    ELSE order[c]]

\* The channel send of the bus goroutine, ch <- msg, at the back of the queue.
ChanSend_Front(q, m) == <<m>> \o q
ChanSend(q, m) == Append(q, m)

\* The bus goroutine delivers the message it holds to one more subscriber;
\* the send blocks while that channel is full.
HubSend(c) ==
    /\ c \in hub.todo
    /\ Len(chan[c]) < Capacity
    /\ chan' = [chan EXCEPT ![c] = ChanSend(chan[c], hub.msg)]
    /\ hub' = IF hub.todo = {c} THEN [msg |-> NoMsg, todo |-> {}]
              ELSE [hub EXCEPT !.todo = @ \ {c}]
    /\ UNCHANGED <<conn, websocketCount, websocketCountByEmail, order, pubq, client, httpvars>>

\* RandomizeQueueEntries reached its publishes, for a queue whose active
\* entries are the one entry id: QUEUE_RANDOMIZE for everybody, then the
\* entry's ENTRY_UPDATE for admins and, anonymized, for the others.
PublishedRandomize(id) ==
    << WS("QUEUE_RANDOMIZE", 0, TRUE, "", QueueTopicGeneric),
       WS("ENTRY_UPDATE", id, TRUE, "", QueueTopicAdmin),
       WS("ENTRY_UPDATE", id, FALSE, "", QueueTopicNonPrivileged) >>

RandomizeQueueEntries ==
    /\ pubq = <<>>
    /\ pubq' = PublishedRandomize(1)
    /\ UNCHANGED <<conn, chan, hub, websocketCount, websocketCountByEmail, order, client, httpvars>>

\* The handler's next s.ps.Pub call.
HandlerPub ==
    /\ pubq # <<>>
    /\ Pub(Head(pubq))
    /\ pubq' = Tail(pubq)
    /\ UNCHANGED <<conn, chan, websocketCount, websocketCountByEmail, client, httpvars>>

\* ------------------------------------------------------- QueueWebsocket
ConnectionsUpdate == WS("QUEUE_CONNECTIONS_UPDATE", 0, TRUE, "", QueueTopicAdmin)
UserStatusUpdate(email, status) ==
    WS("USER_STATUS_UPDATE", 0, TRUE, email, QueueTopicAdmin) @@ [status |-> status]

\* The upgrade succeeded and the topics are subscribed: events := s.ps.Sub(...).
QueueWebsocket(c, viewer) ==
    /\ conn[c].pc = "free"
    /\ HubIdle
    /\ conn' = [conn EXCEPT ![c] = [NoConn EXCEPT !.pc = "subbed",
                                     !.admin = viewer \in Admins,
                                     !.email = viewer]]
    /\ UNCHANGED <<chan, hub, websocketCount, websocketCountByEmail, order, pubq, client, httpvars>>

\* The counter section of the open, under websocketCountLock.
CountOpen(c) ==
    /\ conn[c].pc = "subbed"
    /\ websocketCount' = websocketCount + 1
    /\ LET email == conn[c].email IN
       /\ websocketCountByEmail' =
            IF email # ""
            THEN Put(websocketCountByEmail, email, Get(websocketCountByEmail, email) + 1)
            ELSE websocketCountByEmail
       /\ conn' = [conn EXCEPT ![c].pc = "counted",
                               ![c].first = (email # "" /\ Get(websocketCountByEmail, email) = 0)]
    /\ UNCHANGED <<chan, hub, order, pubq, client, httpvars>>

\* The handler's last steps: with the publishes done it starts the read and
\* the write goroutine and returns.
Opened(c) == [conn[c] EXCEPT !.pc = "open", !.writer = "run", !.first = FALSE]

PubConnectionsOpen(c) ==
    /\ conn[c].pc = "counted"
    /\ Pub(ConnectionsUpdate)
    /\ conn' = [conn EXCEPT ![c] = IF conn[c].first
                                   THEN [conn[c] EXCEPT !.pc = "online"]
                                   ELSE Opened(c)]
    /\ UNCHANGED <<chan, websocketCount, websocketCountByEmail, pubq, client, httpvars>>

PubOnline(c) ==
    /\ conn[c].pc = "online"
    /\ Pub(UserStatusUpdate(conn[c].email, "online"))
    /\ conn' = [conn EXCEPT ![c] = Opened(c)]
    /\ UNCHANGED <<chan, websocketCount, websocketCountByEmail, pubq, client, httpvars>>

\* The read goroutine: conn.ReadMessage returned an error, because the read
\* deadline (pingInterval + pingSlack after the last frame) passed or because
\* the client went away. A frame that arrives in time only re-arms the
\* deadline and changes nothing else.
ReadMessageFails(c) ==
    /\ conn[c].pc = "open"
    /\ conn' = [conn EXCEPT ![c].pc = "unsub"]
    /\ UNCHANGED <<chan, hub, websocketCount, websocketCountByEmail, order, pubq, client, httpvars>>

\* s.ps.Unsub(events): a command to the bus goroutine, which removes the
\* channel from its topics and closes it.
Unsub(c) ==
    /\ conn[c].pc = "unsub"
    /\ HubIdle
    /\ conn' = [conn EXCEPT ![c].pc = "close"]
    /\ UNCHANGED <<chan, hub, websocketCount, websocketCountByEmail, order, pubq, client, httpvars>>

\* The close frame, conn.Close() and the counter section of the close.
CountClose_KeepKey(c) ==
    /\ conn[c].pc = "close"
    /\ websocketCount' = websocketCount - 1
    /\ LET email == conn[c].email
           last == email # "" /\ Get(websocketCountByEmail, email) = 1
       IN /\ websocketCountByEmail' =
               IF email = "" THEN websocketCountByEmail
               ELSE Put(websocketCountByEmail, email,
                        Get(websocketCountByEmail, email) - 1)
          /\ conn' = [conn EXCEPT ![c].pc = "uncounted", ![c].last = last]
    /\ UNCHANGED <<chan, hub, order, pubq, client, httpvars>>

CountClose(c) ==
    /\ conn[c].pc = "close"
    /\ websocketCount' = websocketCount - 1
    /\ LET email == conn[c].email
           last == email # "" /\ Get(websocketCountByEmail, email) = 1
       IN /\ websocketCountByEmail' =
               IF email = "" THEN websocketCountByEmail
               ELSE IF last THEN Delete(websocketCountByEmail, email)
               ELSE Put(websocketCountByEmail, email,
                        Get(websocketCountByEmail, email) - 1)
          /\ conn' = [conn EXCEPT ![c].pc = "uncounted", ![c].last = last]
    /\ UNCHANGED <<chan, hub, order, pubq, client, httpvars>>

PubConnectionsClosed(c) ==
    /\ conn[c].pc = "uncounted"
    /\ Pub(ConnectionsUpdate)
    /\ conn' = [conn EXCEPT ![c].pc = IF conn[c].last THEN "offline" ELSE "done",
                            ![c].last = FALSE]
    /\ UNCHANGED <<chan, websocketCount, websocketCountByEmail, pubq, client, httpvars>>

PubOffline(c) ==
    /\ conn[c].pc = "offline"
    /\ Pub(UserStatusUpdate(conn[c].email, "offline"))
    /\ conn' = [conn EXCEPT ![c].pc = "done"]
    /\ UNCHANGED <<chan, websocketCount, websocketCountByEmail, pubq, client, httpvars>>

\* The write goroutine takes the next event from the channel and writes it;
\* a failed write ends the goroutine. A write succeeds only on an open socket.
WriteEvent(c, ok) ==
    /\ conn[c].writer = "run"
    /\ chan[c] # <<>>
    /\ ok => SocketOpen(c)
    /\ chan' = [chan EXCEPT ![c] = Tail(chan[c])]
    /\ order' = [order EXCEPT ![c] = Tail(order[c])]
    /\ conn' = [conn EXCEPT ![c].writer = IF ok THEN "run" ELSE "returned"]
    /\ UNCHANGED <<hub, websocketCount, websocketCountByEmail, pubq, client, httpvars>>

\* The ping ticker fired: the writer writes PING.
WritePing(c, ok) ==
    /\ conn[c].writer = "run"
    /\ ok => SocketOpen(c)
    /\ conn' = [conn EXCEPT ![c].writer = IF ok THEN "run" ELSE "returned"]
    /\ UNCHANGED <<chan, hub, websocketCount, websocketCountByEmail, order, pubq, client, httpvars>>

\* The channel is closed and drained: the receive yields !ok, the writer returns.
WriterSeesClosed(c) ==
    /\ conn[c].writer = "run"
    /\ chan[c] = <<>>
    /\ ~Subscribed(c)
    /\ conn' = [conn EXCEPT ![c].writer = "returned"]
    /\ UNCHANGED <<chan, hub, websocketCount, websocketCountByEmail, order, pubq, client, httpvars>>

\* Both goroutines of the connection have returned: the slot is free again.
ConnGone(c) ==
    /\ conn[c].pc = "done"
    /\ conn[c].writer = "returned"
    /\ conn' = [conn EXCEPT ![c] = NoConn]
    /\ chan' = [chan EXCEPT ![c] = <<>>]
    /\ order' = [order EXCEPT ![c] = <<>>]
    /\ UNCHANGED <<hub, websocketCount, websocketCountByEmail, pubq, client, httpvars>>

\* Who connects.
Connecting == {"a", ""}

\* One step of connection c: of its handler, of its two goroutines, or of
\* the bus goroutine sending to it.
ConnStep(c) ==
    \/ \E viewer \in Connecting : QueueWebsocket(c, viewer)
    \/ CountOpen(c)
    \/ PubConnectionsOpen(c)
    \/ PubOnline(c)
    \/ ReadMessageFails(c)
    \/ Unsub(c)
    \/ CountClose(c)
    \/ PubConnectionsClosed(c)
    \/ PubOffline(c)
    \/ \E ok \in BOOLEAN : WriteEvent(c, ok)
    \/ \E ok \in BOOLEAN : WritePing(c, ok)
    \/ WriterSeesClosed(c)
    \/ HubSend(c)
    \/ ConnGone(c)

NextWS ==
    \/ RandomizeQueueEntries
    \/ HandlerPub
    \/ \E c \in Conns : ConnStep(c)

SpecWS == Init /\ [][NextWS]_vars

\* One connection with every goroutine scheduled fairly: the handler and the
\* read goroutine (ReaderStep), the write goroutine (WriterStep), the bus
\* goroutine and the publishing handler. A read that fails after the write
\* failed is taken for granted, as the write loop's comment does ("if the
\* write fails, we presume that the read will also fail"); a read failure
\* of a connection whose writes succeed is up to the client. Commands to
\* the bus wait in the command channel's queue of senders, which is served
\* in order: a Pub or Unsub that can be taken again and again is taken (SF).
LiveConn == "c1"

ReaderStep(c) ==
    \/ CountOpen(c)
    \/ PubConnectionsOpen(c)
    \/ PubOnline(c)
    \/ Unsub(c)
    \/ CountClose(c)
    \/ PubConnectionsClosed(c)
    \/ PubOffline(c)
    \/ ConnGone(c)

WriterStep(c) ==
    \/ \E ok \in BOOLEAN : WriteEvent(c, ok)
    \/ WriterSeesClosed(c)

ReadFailsAfterWrite(c) == conn[c].writer = "returned" /\ ReadMessageFails(c)

NextWSLive ==
    \/ RandomizeQueueEntries
    \/ HandlerPub
    \/ ConnStep(LiveConn)

SpecWSLive ==
    /\ Init
    /\ [][NextWSLive]_vars
    /\ SF_vars(ReaderStep(LiveConn))
    /\ WF_vars(WriterStep(LiveConn))
    /\ WF_vars(ReadFailsAfterWrite(LiveConn))
    /\ WF_vars(HubSend(LiveConn))
    /\ SF_vars(HandlerPub)

\* ------------------------------------------------------------------ claims
Finishing(r) == req[r].pc = "mw" /\ req'[r].pc = "idle"
StoreStep(r) == req[r].pc = "write" /\ req'[r].pc = "mw"
CountEv(evs, e, topic) ==
    Cardinality({k \in DOMAIN evs : evs[k].e = e /\ evs[k].topic = topic})

\* C1: every event a mutation emits is published only after the request's
\* transaction has committed: no request has published events while its
\* transaction is still open.
C1_PublishedOnlyAfterCommit ==
    \A r \in Slots : req[r].pubd # <<>> => ~OpenTx(r)

\* C2: a request whose handler returned a non-nil error (also one returned
\* while sending the response) has published no event.
C2_NoEventWhenHandlerFails ==
    \A r \in Slots : req[r].herr # "nil" => req[r].pubd = <<>>

C4_OneActiveEntryPerEmail ==
    \A e \in Emails :
        Cardinality({i \in Ids : IsActive(db[i]) /\ db[i].email = e}) <= 1

\* A pin of an archived entry raced with its owner's signup: the signup is
\* stored, the pin was refused by the unique index.
C4_Witness ==
    \E r \in Slots, i \in Ids, j \in Ids :
        /\ req[r].op = "pin" /\ req[r].pc = "mw" /\ req[r].id = j
        /\ req[r].status = StatusInternalServerError
        /\ i # j /\ db[i].email = db[j].email
        /\ IsActive(db[i]) /\ db[j].exists /\ ~IsActive(db[j])

\* C5: an entry whose helping field is non-empty is active.
C5_HelpingImpliesActive ==
    \A i \in Ids : db[i].exists /\ db[i].helping # "" => IsActive(db[i])

\* C6: every pinned entry is active and carries no removed_at/removed_by;
\* remove and clear reset pinned.
C6_PinnedImpliesActive ==
    \A i \in Ids : db[i].exists /\ db[i].pinned =>
        IsActive(db[i]) /\ db[i].removed_at = 0 /\ db[i].removed_by = ""

\* A pinned, active entry is being archived by remove or clear, with pinned
\* reset in the row the request wrote.
C6_Witness ==
    \E r \in Slots, i \in Ids :
        /\ db[i].pinned /\ IsActive(db[i])
        /\ req[r].op \in {"remove", "clear"} /\ req[r].pc = "mw"
        /\ i \in req[r].locks
        /\ ~req[r].txw[i].pinned /\ req[r].txw[i].active = "NULL"

\* Another open request has inserted an entry for this email.
InsertedBy(r, who) ==
    /\ req[r].op = "signup" /\ req[r].who = who
    /\ req[r].pc = "mw" /\ req[r].locks # {}

\* C7: of two concurrent signups of one student, both past the existing-entry
\* check, the first to insert is answered 201 with one row and one
\* ENTRY_CREATE for admins; the other waits for it and, once the entry is
\* committed, is answered 409 with no row written and no event.
C7_DoubleSignup ==
    [][ \A r1 \in Slots :
          (req[r1].op = "signup" /\ req[r1].pc = "write"
                /\ req[r1].who \notin Admins) =>
            /\ (\E r2 \in Slots \ {r1} : InsertedBy(r2, req[r1].who))
                  => req'[r1] = req[r1]
            /\ StoreStep(r1) =>
                 IF GetActiveQueueEntriesForUser(db, req[r1].who) # {}
                 THEN /\ req'[r1].status = StatusConflict
                      /\ req'[r1].herr = "StatusError"
                      /\ req'[r1].locks = {} /\ req'[r1].pubd = <<>>
                 ELSE /\ req'[r1].status = StatusCreated
                      /\ Cardinality(req'[r1].locks) = 1
                      /\ CountEv(req'[r1].pubd, "ENTRY_CREATE", QueueTopicAdmin) = 1
      ]_vars

\* A signup passed its check, then lost the insert to the entry the other
\* signup committed in between.
C7_Witness ==
    \E r \in Slots :
        /\ req[r].op = "signup" /\ req[r].pc = "mw" /\ req[r].rd.exists
        /\ req[r].status = StatusConflict /\ req[r].pubd = <<>>
        /\ Cardinality(GetActiveQueueEntriesForUser(db, req[r].who)) = 1

\* C8: of two removes of one active entry, the first archives it (204, one
\* ENTRY_REMOVE); the other waits for it and then finds no active row: 404,
\* nothing written, no ENTRY_REMOVE.
C8_DoubleRemove ==
    [][ \A r1 \in Slots :
          (req[r1].op = "remove" /\ req[r1].pc = "write") =>
            LET i == req[r1].id IN
            /\ (IsActive(db[i]) /\ LockedByOther(r1, i)) => req'[r1] = req[r1]
            /\ StoreStep(r1) =>
                 IF IsActive(db[i])
                 THEN /\ req'[r1].status = StatusNoContent
                      /\ req'[r1].locks = {i}
                      /\ req'[r1].txw[i].active = "NULL"
                      /\ req'[r1].txw[i].removed_by = req[r1].who
                      /\ req'[r1].txw[i].removed_at # 0
                      /\ CountEv(req'[r1].pubd, "ENTRY_REMOVE", QueueTopicAdmin) = 1
                      /\ CountEv(req'[r1].pubd, "ENTRY_REMOVE", QueueTopicNonPrivileged) = 1
                 ELSE /\ req'[r1].status = StatusNotFound
                      /\ req'[r1].locks = {} /\ req'[r1].pubd = <<>>
      ]_vars

\* A remove found the entry already archived by another remover.
C8_Witness ==
    \E r \in Slots :
        /\ req[r].op = "remove" /\ req[r].pc = "mw"
        /\ req[r].status = StatusNotFound /\ req[r].pubd = <<>>
        /\ db[req[r].id].exists /\ db[req[r].id].removed_by # ""
        /\ db[req[r].id].removed_by # req[r].who

\* C9: a pin of an archived entry or a signup that loses the race for the
\* email's single active entry is answered 409 Conflict, never 500.
C9_LoserReturnsConflict ==
    \A r \in Slots :
        (req[r].pc = "mw" /\ req[r].op \in {"pin", "signup"})
            => req[r].status # StatusInternalServerError

\* C10: a pin of an existing entry by an admin either is refused with 409,
\* changing nothing and emitting nothing, or leaves the entry active and
\* pinned with removed_at, removed_by and helped cleared.
C10_PinOutcome ==
    [][ \A r \in Slots :
          (Finishing(r) /\ req[r].op = "pin"
                /\ req[r].status \notin {0, StatusForbidden, StatusNotFound}) =>
            IF req[r].status = StatusConflict
            THEN db' = db /\ req[r].pubd = <<>>
            ELSE LET row == db'[req[r].id] IN
                 /\ row.active = "TRUE" /\ row.pinned
                 /\ row.removed_at = 0 /\ row.removed_by = "" /\ ~row.helped
      ]_vars

\* The events named e with payload kind full that evs carries on the topic.
OnTopic(evs, e, full, topic) ==
    {k \in DOMAIN evs : evs[k].e = e /\ evs[k].full = full /\ evs[k].topic = topic}

\* C11: after a successful pin of an archived entry the owner's email topic
\* has received ENTRY_PINNED and ENTRY_UPDATE (full), the admin topic
\* STACK_REMOVE then ENTRY_CREATE (full), the non-priv topic the anonymized
\* ENTRY_CREATE.
C11_PinEventsReachOwner ==
    \A r \in Slots :
        (req[r].op = "pin" /\ req[r].pc = "mw"
              /\ req[r].status = StatusNoContent
              /\ db[req[r].id].active = "NULL") =>
            LET evs == req[r].pubd
                owner == QueueTopicEmail(req[r].txw[req[r].id].email)
            IN /\ OnTopic(evs, "ENTRY_PINNED", TRUE, owner) # {}
               /\ OnTopic(evs, "ENTRY_UPDATE", TRUE, owner) # {}
               /\ \E j \in OnTopic(evs, "STACK_REMOVE", TRUE, QueueTopicAdmin),
                     k \in OnTopic(evs, "ENTRY_CREATE", TRUE, QueueTopicAdmin) : j < k
               /\ OnTopic(evs, "ENTRY_CREATE", FALSE, QueueTopicNonPrivileged) # {}

\* C12: a connection, whatever its topic set, is sent each event of a
\* successful mutation at most once.
C12_EachEventOnce ==
    \A r \in Slots, v \in Viewers :
        (req[r].pc = "mw" /\ req[r].herr = "nil") =>
            LET got == Received(v, req[r].pubd) IN
            \A j \in DOMAIN got, k \in DOMAIN got :
                got[j].e = got[k].e => j = k

\* --------------------------------------------- snapshot and configuration
\* ORDER BY pinned DESC, priority DESC, id.
OrderByClause(v, a, b) ==
    IF v[a].pinned # v[b].pinned THEN v[a].pinned
    ELSE IF v[a].priority # v[b].priority THEN v[a].priority > v[b].priority
    ELSE a < b

\* The rows S in the order of the ORDER BY clause.
OrderBy(v, S) ==
    CHOOSE q \in [1..Cardinality(S) -> S] :
        \A j, k \in 1..Cardinality(S) : j < k => OrderByClause(v, q[j], q[k])

\* A row as the response carries it: SELECT * for an admin, else id, queue,
\* priority, pinned and helping collapsed to '' or ' staff'.
FullEntry(v, i) ==
    [id |-> i, email |-> v[i].email, pinned |-> v[i].pinned,
     priority |-> v[i].priority, helping |-> v[i].helping]
AnonymousEntry(v, i) ==
    [id |-> i, email |-> "", pinned |-> v[i].pinned,
     priority |-> v[i].priority,
     helping |-> IF v[i].helping = "" THEN "" ELSE " staff"]

GetQueueEntries_SelectAll(v, admin) ==
    LET active == {i \in Ids : /\ v[i].exists /\ v[i].active # "NULL"
                                /\ v[i].queue = QueueID}
        ids == OrderBy(v, active)
    IN [k \in DOMAIN ids |-> FullEntry(v, ids[k])]

GetQueueEntries(v, admin) ==
    LET active == {i \in Ids : /\ v[i].exists /\ v[i].active # "NULL"
                                /\ v[i].queue = QueueID}
        ids == OrderBy(v, active)
    IN [k \in DOMAIN ids |->
          IF admin THEN FullEntry(v, ids[k]) ELSE AnonymousEntry(v, ids[k])]

\* The stack of an admin's snapshot: SELECT * ... WHERE active IS NULL
\* ORDER BY removed_at DESC, id DESC LIMIT $2.
RemovedEntry(v, i) ==
    [id |-> i, email |-> v[i].email, pinned |-> v[i].pinned,
     helping |-> v[i].helping, helped |-> v[i].helped,
     removed_by |-> v[i].removed_by, removed_at |-> v[i].removed_at]

StackLimit == 20

GetQueueStack(v, limit) ==
    LET removed == {i \in Ids : /\ v[i].exists /\ v[i].active = "NULL"
                                 /\ v[i].queue = QueueID}
        n == Cardinality(removed)
        ids == CHOOSE q \in [1..n -> removed] :
                  \A j, k \in 1..n : j < k =>
                     \/ v[q[j]].removed_at > v[q[k]].removed_at
                     \/ /\ v[q[j]].removed_at = v[q[k]].removed_at
                        /\ q[j] > q[k]
    IN [k \in 1..(IF n < limit THEN n ELSE limit) |-> RemovedEntry(v, ids[k])]

\* The open flag of the snapshot.
QueueOpen ==
    IF config.scheduled
    THEN GetCurrentDaySchedule[CurrentHalfHour] \in {"o", "p"}
    ELSE config.manual_open

\* GET /queues/Q: the entries, with the viewer's own active entries
\* replaced by their full rows when the viewer is logged in and no admin,
\* and the stack for an admin.
GetQueue(r, viewer) ==
    /\ req[r].pc = "idle"
    /\ LET admin == viewer \in Admins
           entries == GetQueueEntries(db, admin)
           own == IF ~admin /\ viewer # ""
                  THEN GetActiveQueueEntriesForUser(db, viewer) ELSE {}
           queue == [k \in DOMAIN entries |->
                       IF entries[k].id \in own
                       THEN FullEntry(db, entries[k].id) ELSE entries[k]]
       IN req' = [req EXCEPT ![r] =
            [Started("snapshot", viewer, 0) EXCEPT
                !.pc = "mw", !.status = StatusOK,
                !.resp = [queue |-> queue,
                          stack |-> IF admin THEN GetQueueStack(db, StackLimit)
                                    ELSE <<>>,
                          open |-> QueueOpen]]]
    /\ UNCHANGED <<db, config, clock, tables, wsvars>>

\* UPDATE queues SET <every column of the body> WHERE id=$10, with the body's
\* manual_open stored as well.
db_UpdateQueueConfiguration_All(row, cfg) == cfg

\* UPDATE queues SET enable_location_field, prevent_unregistered,
\* prevent_groups, prevent_groups_boost, prioritize_new, cooldown, virtual,
\* scheduled, prompts WHERE id=$10: manual_open is not among the columns.
db_UpdateQueueConfiguration(row, cfg) ==
    [cfg EXCEPT !.manual_open = row.manual_open]

\* len(prompts) == len(promptSet)
NoDuplicates(prompts) ==
    Cardinality({prompts[k] : k \in DOMAIN prompts}) = Len(prompts)

\* PUT /queues/Q/configuration by a course admin: every field but manual_open;
\* a body whose prompts repeat is answered 400 and stores nothing.
UpdateQueueConfiguration(r, cfg) ==
    /\ req[r].pc = "idle"
    /\ NoDuplicates(cfg.prompts)
    /\ config' = db_UpdateQueueConfiguration(config, cfg)
    /\ config' # config
    /\ UNCHANGED <<db, req, clock, tables, wsvars>>

\* PUT /queues/Q/open?open=true|false by a course admin.
UpdateQueueOpenStatus(r, open) ==
    /\ req[r].pc = "idle"
    /\ config' = [config EXCEPT !.manual_open = open]
    /\ config' # config
    /\ UNCHANGED <<db, req, clock, tables, wsvars>>

\* UPDATE schedules SET schedule=$1 WHERE queue=$2 AND day=$3, for every
\* index of the list; an index without a row updates nothing.
db_UpdateQueueSchedule(rows, schedules) ==
    [d \in DOMAIN rows |->
        IF d + 1 \in DOMAIN schedules THEN schedules[d + 1] ELSE rows[d]]

\* A request body holding a list of schedule strings, and one that
\* json.Decode fails on.
ScheduleBody(schedules) == [decodes |-> TRUE, schedules |-> schedules]
BadScheduleBody == [decodes |-> FALSE, schedules |-> <<>>]

\* PUT /queues/Q/schedule by a course admin: every string of the list must
\* have the length of a day; the list is then stored as it is, REFRESH is
\* published and 204 answered.
UpdateQueueSchedule(r, body) ==
    /\ req[r].pc = "idle"
    /\ LET rq == [Started("schedule", "a", 0) EXCEPT !.body = body] IN
       IF ~body.decodes
       THEN /\ req' = [req EXCEPT ![r] =
                    [Rejected(rq, "StatusError", StatusBadRequest) EXCEPT
                        !.msg = "We couldn't read the schedules from the request body."]]
            /\ tables' = tables
       ELSE IF \E i \in DOMAIN body.schedules : Len(body.schedules[i]) # HalfHours
       THEN /\ req' = [req EXCEPT ![r] =
                    [Rejected(rq, "StatusError", StatusBadRequest) EXCEPT
                        !.msg = "Make sure your schedule is 48 characters long!"]]
            /\ tables' = tables
       ELSE /\ req' = [req EXCEPT ![r] =
                    [rq EXCEPT !.pc = "mw", !.status = StatusNoContent,
                               !.pubd = << WS("REFRESH", 0, TRUE, "",
                                              QueueTopicGeneric) >>]]
            /\ tables' = [tables EXCEPT !.schedule =
                              db_UpdateQueueSchedule(@, body.schedules)]
    /\ UNCHANGED <<db, config, clock, wsvars>>

\* Time passes.
MaxTime == 3
Tick ==
    /\ clock.now < MaxTime
    /\ clock' = [clock EXCEPT !.now = @ + 1]
    /\ UNCHANGED <<db, req, config, tables, wsvars>>

\* The requests of the sequential specifications.
Slot1 == "r1"
Slot2 == "r2"

\* Signup, removal, pin, helping and clear of the one request at a time.
EntryHandlers(signers) ==
    \/ \E who \in signers : AddQueueEntry(Slot1, who, PlainBody)
    \/ \E who \in Emails, id \in Ids : RemoveQueueEntry(Slot1, who, id)
    \/ \E id \in Ids : PinQueueEntry(Slot1, "a", id)
    \/ \E id \in Ids, helping \in BOOLEAN : SetQueueEntryHelping(Slot1, "a", id, helping)
    \/ ClearQueueEntries(Slot1, "a")
    \/ StoreAddQueueEntry(Slot1, TRUE)
    \/ StoreRemoveQueueEntry(Slot1, TRUE)
    \/ StorePinQueueEntry(Slot1, TRUE)
    \/ StoreSetQueueEntryHelping(Slot1, TRUE)
    \/ StoreClearQueueEntries(Slot1, TRUE)
    \/ transaction(Slot1, TRUE)

\* Snapshots of a queue whose entries come and go, one request at a time.
NextSnapshot ==
    \/ EntryHandlers(Students)
    \/ \E viewer \in Viewers : GetQueue(Slot1, viewer)
    \/ \E p \in BOOLEAN :
          UpdateQueueConfiguration(Slot1, [config EXCEPT !.prioritize_new = p])

SpecSnapshot == Init /\ [][NextSnapshot]_vars

\* ------------------------------------------------------------- eligibility
\* The cooldown an admin can configure, in clock units.
Cooldown == 2

\* The configurations an admin chooses from.
Configurations ==
    [scheduled : BOOLEAN, manual_open : BOOLEAN, prioritize_new : {FALSE},
     prevent_unregistered : BOOLEAN, prevent_groups : BOOLEAN,
     prevent_groups_boost : {FALSE}, cooldown : {0, Cooldown},
     prompts : {<<>>}]

\* A course whose roster holds s1 but not s2 and whose groups make s1 and
\* s2, and the admin and s1, teammates.
InitEligibility ==
    /\ db = [i \in Ids |-> NoRow]
    /\ req = [r \in Slots |-> IdleReq]
    /\ config = [scheduled |-> FALSE, manual_open |-> TRUE, prioritize_new |-> FALSE,
                 prevent_unregistered |-> FALSE, prevent_groups |-> FALSE,
                 prevent_groups_boost |-> FALSE, cooldown |-> 0,
                 prompts |-> <<>>]
    /\ clock = [now |-> 1, half_hour |-> 1, first_id_of_day |-> 1,
                weekday |-> 0]
    /\ tables = [schedule |-> NewSchedules, roster |-> {"s1"},
                 teammates |-> {<<"s1", "s2">>, <<"s2", "s1">>,
                                <<"a", "s1">>, <<"s1", "a">>}]
    /\ InitWebsockets

\* Signups and removals by an admin under changing configuration, schedule
\* and time, one request at a time.
NextEligibility ==
    \/ \E who \in Emails : AddQueueEntry(Slot1, who, PlainBody)
    \/ StoreAddQueueEntry(Slot1, TRUE)
    \/ \E id \in Ids : RemoveQueueEntry(Slot1, "a", id)
    \/ StoreRemoveQueueEntry(Slot1, TRUE)
    \/ transaction(Slot1, TRUE)
    \/ \E viewer \in {"s1"} : GetQueue(Slot1, viewer)
    \/ \E cfg \in Configurations : UpdateQueueConfiguration(Slot1, cfg)
    \/ \E open \in BOOLEAN : UpdateQueueOpenStatus(Slot1, open)
    \/ \E ch \in ScheduleChars :
          UpdateQueueSchedule(Slot1,
              ScheduleBody([d \in 1..Days |-> [h \in 1..HalfHours |-> ch]]))
    \/ Tick

SpecEligibility == InitEligibility /\ [][NextEligibility]_vars

\* ---------------------------------------------------------------- front-end
\* UPDATE queue_entries SET priority=floor(random() * 10 + 1)::int WHERE
\* active IS NOT NULL: every active row gets a priority of its own, here one
\* of the smallest and the largest.
RandomPriorities == {1, 10}
db_RandomizeQueueEntries(rows, prio) ==
    LET active == {i \in Ids : IsActive(rows[i]) /\ rows[i].queue = QueueID} IN
    [i \in active |-> [rows[i] EXCEPT !.priority = prio[i]]]

\* The publishes of the randomize handler: QUEUE_RANDOMIZE for everybody,
\* then, entry by entry in queue order, ENTRY_UPDATE with the full entry for
\* the admins and with the anonymized one for the others.
PublishedRandomizeAll(v) ==
    LET active == {i \in Ids : IsActive(v[i]) /\ v[i].queue = QueueID}
        ids == OrderBy(v, active)
    IN << WS("QUEUE_RANDOMIZE", 0, TRUE, "", QueueTopicGeneric) >> \o
       [k \in 1..(2 * Cardinality(active)) |->
           IF k % 2 = 1
           THEN WS("ENTRY_UPDATE", ids[(k + 1) \div 2], TRUE, "", QueueTopicAdmin)
           ELSE WS("ENTRY_UPDATE", ids[k \div 2], FALSE, "", QueueTopicNonPrivileged)]

\* POST /queues/Q/entries/randomize by a course admin: the statement, the
\* re-read of the entries, the publishes and the 204.
RandomizeQueue(r, prio) ==
    /\ req[r].pc = "idle"
    /\ \A i \in Ids : (IsActive(db[i]) /\ db[i].queue = QueueID) => ~LockedByOther(r, i)
    /\ LET rows == db_RandomizeQueueEntries(db, prio)
           after == [i \in Ids |-> IF i \in DOMAIN rows THEN rows[i] ELSE db[i]]
       IN req' = [req EXCEPT ![r] =
             [Started("randomize", "a", 0) EXCEPT
                 !.pc = "mw", !.status = StatusNoContent,
                 !.locks = DOMAIN rows,
                 !.txw = [i \in Ids |-> IF i \in DOMAIN rows THEN rows[i] ELSE NoRow],
                 !.pubd = PublishedRandomizeAll(after)]]
    /\ UNCHANGED <<db, config, clock, tables, wsvars>>

\* handleWebSocketMessage on the entries of the store: ENTRY_CREATE replaces
\* or adds the entry, ENTRY_REMOVE takes it out, ENTRY_UPDATE replaces an
\* entry that is there, QUEUE_CLEAR empties the list; the other events leave
\* the entries alone.
handleWebSocketMessage(entries, m) ==
    LET entry == IF m.full THEN "full" ELSE "anon" IN
    IF m.e = "ENTRY_CREATE" THEN [entries EXCEPT ![m.id] = entry]
    ELSE IF m.e = "ENTRY_REMOVE" THEN [entries EXCEPT ![m.id] = "none"]
    ELSE IF m.e = "ENTRY_UPDATE"
    THEN IF entries[m.id] # "none" THEN [entries EXCEPT ![m.id] = entry]
         ELSE entries
    ELSE IF m.e = "QUEUE_CLEAR" THEN NoEntries
    ELSE entries

RECURSIVE HandleAll(_, _)
HandleAll(entries, evs) ==
    IF evs = <<>> THEN entries
    ELSE HandleAll(handleWebSocketMessage(entries, Head(evs)), Tail(evs))

\* The entries of a fresh GET /queues/Q as the watcher's front-end stores
\* them: full rows for an admin and for the watcher's own entries.
SnapshotEntries(w) ==
    LET admin == w \in Admins
        entries == GetQueueEntries(db, admin)
        own == IF ~admin /\ w # "" THEN GetActiveQueueEntriesForUser(db, w) ELSE {}
    IN [i \in Ids |->
          IF \E k \in DOMAIN entries : entries[k].id = i
          THEN IF admin \/ i \in own THEN "full" ELSE "anon"
          ELSE "none"]

\* The handler's publishes (s.ps.Pub, after its statement and before it
\* returns) reach the watchers' sockets and are handled there.
ClientReceive(r) ==
    /\ req[r].pc = "mw"
    /\ req[r].pubd # <<>>
    /\ client' = [w \in Watchers |-> HandleAll(client[w], Received(w, req[r].pubd))]
    /\ req' = [req EXCEPT ![r].pubd = <<>>]
    /\ UNCHANGED <<db, config, clock, tables, conn, chan, hub, websocketCount,
                   websocketCountByEmail, order, pubq>>

\* The handler returns when its publishes are done.
ReturnAfterPub(r) ==
    /\ req[r].pubd = <<>>
    /\ transaction(r, TRUE)

\* Slot r1 carries the requests on single entries and the randomize, slot r2
\* the clear of the queue, so that a clear races with each of them.
NextClient ==
    \/ \E who \in Students : AddQueueEntry(Slot1, who, PlainBody)
    \/ \E who \in Emails, id \in Ids : RemoveQueueEntry(Slot1, who, id)
    \/ \E id \in Ids : PinQueueEntry(Slot1, "a", id)
    \/ \E id \in Ids, helping \in BOOLEAN : SetQueueEntryHelping(Slot1, "a", id, helping)
    \/ \E who \in Students, id \in Ids : UpdateQueueEntry(Slot1, who, id, PlainBody)
    \/ \E prio \in [Ids -> RandomPriorities] : RandomizeQueue(Slot1, prio)
    \/ ClearQueueEntries(Slot2, "a")
    \/ StoreAddQueueEntry(Slot1, TRUE)
    \/ StoreRemoveQueueEntry(Slot1, TRUE)
    \/ StorePinQueueEntry(Slot1, TRUE)
    \/ StoreSetQueueEntryHelping(Slot1, TRUE)
    \/ StoreUpdateQueueEntry(Slot1, TRUE)
    \/ StoreClearQueueEntries(Slot2, TRUE)
    \/ \E r \in Slots : ClientReceive(r) \/ ReturnAfterPub(r)

SpecClient == Init /\ [][NextClient]_vars

\* ------------------------------------------------------------------ priority
\* UPDATE queue_entries SET helped=$1 WHERE id=$2.
db_SetHelpedStatus_Keep(row, helped) == row

db_SetHelpedStatus(row, helped) == [row EXCEPT !.helped = helped]

\* DELETE /queues/Q/entries/{id}/helped by a course admin: the entry, on the
\* queue or archived, is marked not helped; ENTRY_UPDATE goes to the admins
\* and NOT_HELPED to the entry's owner.
SetNotHelped(r, id) ==
    /\ req[r].pc = "idle"
    /\ ~LockedByOther(r, id)
    /\ LET rq == Started("not_helped", "a", id) IN
       req' = [req EXCEPT ![r] =
          IF ~GetQueueEntry(db, id, TRUE)
          THEN Rejected(rq, "StatusError", StatusNotFound)
          ELSE [rq EXCEPT !.pc = "mw", !.status = StatusNoContent,
                          !.locks = {id},
                          !.txw = [i \in Ids |->
                                     IF i = id THEN db_SetHelpedStatus(db[id], FALSE)
                                     ELSE NoRow],
                          !.pubd = << WS("ENTRY_UPDATE", id, TRUE, "", QueueTopicAdmin),
                                      WS("NOT_HELPED", 0, TRUE, "",
                                         QueueTopicEmail(db[id].email)) >>]]
    /\ UNCHANGED <<db, config, clock, tables, wsvars>>

\* Midnight: the entries created from now on are those of the new day, the
\* next weekday; the model follows MaxDay midnights.
MaxDay == 1
Midnight ==
    /\ \A r \in Slots : req[r].pc = "idle"
    /\ clock.weekday < MaxDay
    /\ clock' = [clock EXCEPT !.first_id_of_day = Cardinality(UsedIds) + 1,
                              !.weekday = (@ + 1) % Days]
    /\ UNCHANGED <<db, req, config, tables, wsvars>>

\* A course whose groups make s1 and s2 teammates.
InitPriority ==
    /\ db = [i \in Ids |-> NoRow]
    /\ req = [r \in Slots |-> IdleReq]
    /\ config = [scheduled |-> FALSE, manual_open |-> TRUE, prioritize_new |-> FALSE,
                 prevent_unregistered |-> FALSE, prevent_groups |-> FALSE,
                 prevent_groups_boost |-> FALSE, cooldown |-> 0,
                 prompts |-> <<>>]
    /\ clock = [now |-> 1, half_hour |-> 1, first_id_of_day |-> 1,
                weekday |-> 0]
    /\ tables = [schedule |-> NewSchedules, roster |-> {},
                 teammates |-> {<<"s1", "s2">>, <<"s2", "s1">>}]
    /\ InitWebsockets

\* Signups over the days, between removals, pins and not-helped marks, under
\* a changing prioritize_new and prevent_groups_boost.
NextPriority ==
    \/ EntryHandlers(Students)
    \/ \E id \in Ids : SetNotHelped(Slot1, id)
    \/ Midnight
    \/ \E p, b \in BOOLEAN :
          UpdateQueueConfiguration(Slot1,
              [config EXCEPT !.prioritize_new = p, !.prevent_groups_boost = b])

SpecPriority == InitPriority /\ [][NextPriority]_vars

\* A queue that boosts first questions and has a cooldown: s1 signs up, the
\* entry is removed by s1 or by the admin, pinned back, cleared or marked
\* not helped, while time and days pass.
InitHelped ==
    /\ db = [i \in Ids |-> NoRow]
    /\ req = [r \in Slots |-> IdleReq]
    /\ config = [scheduled |-> FALSE, manual_open |-> TRUE, prioritize_new |-> TRUE,
                 prevent_unregistered |-> FALSE, prevent_groups |-> FALSE,
                 prevent_groups_boost |-> FALSE, cooldown |-> Cooldown,
                 prompts |-> <<>>]
    /\ clock = [now |-> 1, half_hour |-> 1, first_id_of_day |-> 1,
                weekday |-> 0]
    /\ tables = [schedule |-> NewSchedules, roster |-> {}, teammates |-> {}]
    /\ InitWebsockets

NextHelped ==
    \/ EntryHandlers(Signers)
    \/ \E id \in Ids : SetNotHelped(Slot1, id)
    \/ Midnight
    \/ Tick

SpecHelped == InitHelped /\ [][NextHelped]_vars

\* ------------------------------------------------------------ other queues
\* The server holds a second queue, of a course a does not administer, with
\* an entry of s2 on it; the requests are those on the URLs of queue Q.
InitForeign ==
    /\ db = [i \in Ids |->
               IF i = 1
               THEN [db_AddQueueEntry("s2", 0, PlainBody) EXCEPT !.queue = OtherQueue]
               ELSE NoRow]
    /\ req = [r \in Slots |-> IdleReq]
    /\ config = [scheduled |-> FALSE, manual_open |-> TRUE, prioritize_new |-> FALSE,
                 prevent_unregistered |-> FALSE, prevent_groups |-> FALSE,
                 prevent_groups_boost |-> FALSE, cooldown |-> 0,
                 prompts |-> <<>>]
    /\ clock = [now |-> 1, half_hour |-> 1, first_id_of_day |-> 1,
                weekday |-> 0]
    /\ tables = [schedule |-> NewSchedules, roster |-> {}, teammates |-> {}]
    /\ InitWebsockets

NextForeign ==
    \/ EntryHandlers(Signers)
    \/ \E id \in Ids : SetNotHelped(Slot1, id)
    \/ \E who \in Students, id \in Ids : UpdateQueueEntry(Slot1, who, id, PlainBody)
    \/ StoreUpdateQueueEntry(Slot1, TRUE)

SpecForeign == InitForeign /\ [][NextForeign]_vars

\* ------------------------------------------------------------------ cooldown
\* Seconds since the last helped removal, and cooldowns in seconds.
Elapsed == {0, 1, 29, 30, 31, 59, 60, 61, 89, 90, 119, 120, 121, 150, 179, 180}
Cooldowns == {0, 30, 60, 120, 121, 180, 240}

\* s1 was helped and removed by the admin at second 1; it is now some
\* seconds later, under some cooldown.
InitCooldown ==
    /\ db = [i \in Ids |->
               IF i = 1
               THEN [db_AddQueueEntry("s1", 0, PlainBody) EXCEPT
                        !.active = "NULL", !.removed_at = 1,
                        !.last_removed_at = 1,
                        !.removed_by = "a", !.helped = TRUE]
               ELSE NoRow]
    /\ req = [r \in Slots |-> IdleReq]
    /\ \E c \in Cooldowns :
          config = [scheduled |-> FALSE, manual_open |-> TRUE, prioritize_new |-> FALSE,
                    prevent_unregistered |-> FALSE, prevent_groups |-> FALSE,
                    prevent_groups_boost |-> FALSE, cooldown |-> c,
                    prompts |-> <<>>]
    /\ \E e \in Elapsed : clock = [now |-> 1 + e, half_hour |-> 1, first_id_of_day |-> 1,
                weekday |-> 0]
    /\ tables = [schedule |-> NewSchedules, roster |-> {},
                 teammates |-> {}]
    /\ InitWebsockets

\* Signups of the helped student, of another student and of the admin.
NextCooldown ==
    \/ \E who \in Emails : AddQueueEntry(Slot1, who, PlainBody)
    \/ StoreAddQueueEntry(Slot1, TRUE)
    \/ transaction(Slot1, TRUE)

SpecCooldown == InitCooldown /\ [][NextCooldown]_vars

\* ------------------------------------------------------- entry descriptions
\* The descriptions a body may carry: plain texts (one of multi-byte
\* characters), the empty string, JSON arrays of strings, of numbers, a JSON
\* object and null.
Descriptions ==
    { Description("text", <<>>, 5, 5),
      Description("text", <<>>, 7, 7),
      Description("text", <<>>, 0, 0),
      Description("text", <<>>, maxDescriptionLength, maxDescriptionLength),
      Description("text", <<>>, maxDescriptionLength + 1, maxDescriptionLength + 1),
      Description("text", <<>>, 1000, 2000),
      Description("strings", <<>>, 2, 2),
      Description("strings", <<"x">>, 5, 5),
      Description("strings", <<"x", "y">>, 9, 9),
      Description("strings", <<"x", " ">>, 9, 9),
      Description("strings", <<"x", "">>, 10, 10),
      Description("strings", <<"x", "y">>, maxDescriptionLength + 1,
                  maxDescriptionLength + 1),
      Description("array", <<>>, 5, 5),
      Description("object", <<>>, 9, 9),
      Description("null", <<>>, 4, 4) }

\* The request bodies of signup and update.
Bodies ==
    {Body(d, Location("l1", 2)) : d \in Descriptions}
        \cup { Body(Description("text", <<>>, 5, 5), Location("l2", 2)),
               Body(Description("text", <<>>, 5, 5),
                    Location("l3", maxLocationLength + 1)),
               BadBody }

\* The prompts an admin configured: none, or two.
Prompts == {<<>>, <<"A", "B">>}

InitUpdate ==
    /\ db = [i \in Ids |-> NoRow]
    /\ req = [r \in Slots |-> IdleReq]
    /\ \E prompts \in Prompts :
          config = [scheduled |-> FALSE, manual_open |-> TRUE,
                    prioritize_new |-> FALSE, prevent_unregistered |-> FALSE,
                    prevent_groups |-> FALSE, prevent_groups_boost |-> FALSE,
                    cooldown |-> 0, prompts |-> prompts]
    /\ clock = [now |-> 1, half_hour |-> 1, first_id_of_day |-> 1,
                weekday |-> 0]
    /\ tables = [schedule |-> NewSchedules, roster |-> {},
                 teammates |-> {}]
    /\ InitWebsockets

\* Signups and updates with every body, between removals, pins and helping,
\* one request at a time.
NextUpdate ==
    \/ \E body \in Bodies : AddQueueEntry(Slot1, "s1", body)
    \/ \E who \in Emails, id \in Ids, body \in Bodies :
          UpdateQueueEntry(Slot1, who, id, body)
    \/ \E id \in Ids : RemoveQueueEntry(Slot1, "a", id)
    \/ \E id \in Ids : PinQueueEntry(Slot1, "a", id)
    \/ \E id \in Ids : SetQueueEntryHelping(Slot1, "a", id, TRUE)
    \/ StoreAddQueueEntry(Slot1, TRUE)
    \/ StoreUpdateQueueEntry(Slot1, TRUE)
    \/ StoreRemoveQueueEntry(Slot1, TRUE)
    \/ StorePinQueueEntry(Slot1, TRUE)
    \/ StoreSetQueueEntryHelping(Slot1, TRUE)
    \/ transaction(Slot1, TRUE)

SpecUpdate == InitUpdate /\ [][NextUpdate]_vars

\* The owner's updates on one request slot, the admin's removals and clears
\* on the other: every order of their reads, statements and commits.
EditedBody == Body(Description("text", <<>>, 7, 7), Location("l2", 2))

NextRace ==
    \/ AddQueueEntry(Slot1, "s1", PlainBody)
    \/ \E id \in Ids : UpdateQueueEntry(Slot1, "s1", id, EditedBody)
    \/ StoreAddQueueEntry(Slot1, TRUE)
    \/ StoreUpdateQueueEntry(Slot1, TRUE)
    \/ \E id \in Ids : RemoveQueueEntry(Slot2, "a", id)
    \/ ClearQueueEntries(Slot2, "a")
    \/ StoreRemoveQueueEntry(Slot2, TRUE)
    \/ StoreClearQueueEntries(Slot2, TRUE)
    \/ \E r \in Slots : transaction(r, TRUE)

SpecRace == Init /\ [][NextRace]_vars

\* The bodies of PUT /queues/Q/configuration: with and without prompts, with
\* a repeated prompt, each with either manual_open.
ConfigurationBodies ==
    [scheduled : {FALSE}, manual_open : BOOLEAN, prioritize_new : {FALSE},
     prevent_unregistered : BOOLEAN, prevent_groups : {FALSE},
     prevent_groups_boost : {FALSE}, cooldown : {0},
     prompts : Prompts \cup {<<"A", "A">>}]

\* A signup answering two prompts.
PromptBody == Body(Description("strings", <<"x", "y">>, 9, 9), Location("l1", 2))

\* Signups with a text and with prompt responses while the admin changes the
\* configuration and opens and closes the queue.
NextPrompts ==
    \/ \E who \in Students, body \in {PlainBody, PromptBody} :
          AddQueueEntry(Slot1, who, body)
    \/ StoreAddQueueEntry(Slot1, TRUE)
    \/ \E id \in Ids : RemoveQueueEntry(Slot1, "a", id)
    \/ StoreRemoveQueueEntry(Slot1, TRUE)
    \/ transaction(Slot1, TRUE)
    \/ \E cfg \in ConfigurationBodies : UpdateQueueConfiguration(Slot1, cfg)
    \/ \E open \in BOOLEAN : UpdateQueueOpenStatus(Slot1, open)

SpecPrompts == InitUpdate /\ [][NextPrompts]_vars

\* ---------------------------------------------------------------- schedules
\* Day strings: every string of the length of a day over the characters a
\* request can send, one shorter and one longer.
DayStrings ==
    [1..HalfHours -> ScheduleChars]
        \cup {[h \in 1..(HalfHours - 1) |-> "o"], [h \in 1..(HalfHours + 1) |-> "o"]}

\* The bodies of PUT /queues/Q/schedule: lists of Days - 1, Days and Days + 1
\* equal strings, a list whose last string differs, the empty list and a
\* body that is no list.
ScheduleBodies ==
    {ScheduleBody([d \in 1..n |-> str]) :
        n \in {Days - 1, Days, Days + 1}, str \in DayStrings}
        \cup {ScheduleBody([d \in 1..Days |->
                 IF d = Days THEN str ELSE [h \in 1..HalfHours |-> "c"]]) :
                    str \in DayStrings}
        \cup {ScheduleBody(<<>>), BadScheduleBody}

\* Schedule updates and the days going by.
NextSchedule ==
    \/ \E body \in ScheduleBodies : UpdateQueueSchedule(Slot1, body)
    \/ transaction(Slot1, TRUE)
    \/ Midnight

SpecSchedule == Init /\ [][NextSchedule]_vars

\* ------------------------------------------------------------ store errors
\* The text of a query that failed, as the driver reports it.
BackendError == "pq: terminating connection due to administrator command"

\* The error of CanAddEntry when its first query fails.
CanAddEntryFailure ==
    "failed to determine admin status in course: " \o BackendError

\* POST /queues/Q/entries in a run where the store call named fault fails:
\* the error of GetActiveQueueEntriesForUser and of GetEntryPriority is
\* returned as it is, the error of CanAddEntry is answered like a refusal,
\* with its text.
AddQueueEntryFails(r, who, body, fault) ==
    /\ req[r].pc = "idle"
    /\ LET rq == [Started("signup", who, 0) EXCEPT !.body = body, !.fault = fault] IN
       \/ /\ fault = "GetActiveQueueEntriesForUser"
          /\ req' = [req EXCEPT ![r] =
                Rejected(rq, "error", StatusInternalServerError)]
       \/ /\ fault = "CanAddEntry"
          /\ GetActiveQueueEntriesForUser(db, who) = {}
          /\ req' = [req EXCEPT ![r] =
                [Rejected(rq, "StatusError", StatusForbidden)
                    EXCEPT !.msg = CanAddEntryFailure]]
       \/ /\ fault = "GetEntryPriority"
          /\ GetActiveQueueEntriesForUser(db, who) = {}
          /\ CanAddEntry(db, who) = "ok"
          /\ DecodeQueueEntry(body, Name(who)) = "nil"
          /\ req' = [req EXCEPT ![r] =
                Rejected(rq, "error", StatusInternalServerError)]
    /\ UNCHANGED <<db, config, clock, tables, wsvars>>

\* The insert fails with a pq.Error that is no unique violation: errors.As
\* finds a *pq.Error and the handler answers 409.
StoreAddQueueEntryFails(r) ==
    /\ req[r].pc = "write" /\ req[r].op = "signup"
    /\ req' = [req EXCEPT ![r].herr = "StatusError",
                          ![r].status = StatusConflict,
                          ![r].pc = "mw", ![r].fault = "AddQueueEntry"]
    /\ UNCHANGED <<db, config, clock, tables, wsvars>>

\* DELETE /queues/Q/entries/{id} in a run where a query of
\* CanRemoveQueueEntry fails: answered like a refusal.
RemoveQueueEntryFails(r, who, id) ==
    /\ req[r].pc = "idle"
    /\ req' = [req EXCEPT ![r] =
          [Rejected([Started("remove", who, id) EXCEPT
                        !.fault = "CanRemoveQueueEntry"],
                    "StatusError", StatusForbidden)
              EXCEPT !.msg = "Removing someone else's queue entry isn't very nice!"]]
    /\ UNCHANGED <<db, config, clock, tables, wsvars>>

\* The UPDATE of a removal fails with an error that is not sql.ErrNoRows:
\* the handler returns it as it is.
StoreRemoveQueueEntryFails(r) ==
    /\ req[r].pc = "write" /\ req[r].op = "remove"
    /\ req' = [req EXCEPT ![r].herr = "error",
                          ![r].status = StatusInternalServerError,
                          ![r].pc = "mw", ![r].fault = "RemoveQueueEntry"]
    /\ UNCHANGED <<db, config, clock, tables, wsvars>>

\* Signups, removals and the other entry operations, any store call of a
\* signup or removal failing.
NextErrors ==
    \/ EntryHandlers(Students)
    \/ \E who \in Emails, fault \in {"GetActiveQueueEntriesForUser",
                                     "CanAddEntry", "GetEntryPriority"} :
          AddQueueEntryFails(Slot1, who, PlainBody, fault)
    \/ StoreAddQueueEntryFails(Slot1)
    \/ \E who \in Emails, id \in Ids : RemoveQueueEntryFails(Slot1, who, id)
    \/ StoreRemoveQueueEntryFails(Slot1)

SpecErrors == Init /\ [][NextErrors]_vars

\* ---------------------------------------------------------------- archivals
\* An entry is removed, cleared and pinned back by an admin while time
\* passes, two requests in flight.
NextArchive ==
    \/ \E r \in Slots :
          \/ AddQueueEntry(r, "s1", PlainBody)
          \/ \E id \in Ids : RemoveQueueEntry(r, "a", id)
          \/ \E id \in Ids : PinQueueEntry(r, "a", id)
          \/ ClearQueueEntries(r, "a")
          \/ StoreAddQueueEntry(r, TRUE)
          \/ StoreRemoveQueueEntry(r, TRUE)
          \/ StorePinQueueEntry(r, TRUE)
          \/ StoreClearQueueEntries(r, TRUE)
          \/ transaction(r, TRUE)
    \/ Tick

SpecArchive == Init /\ [][NextArchive]_vars

\* ---------------------------------------------------------------- presence
\* The connections between the counter section of the open and the counter
\* section of the close.
Counted(c) == conn[c].pc \in {"counted", "online", "open", "unsub", "close"}
CountedFor(email) == {c \in Conns : Counted(c) /\ conn[c].email = email}

\* C13: the counters equal the numbers of counted connections, per queue and
\* per authenticated email, never fall below zero and keep no key at zero; a
\* connect is marked to publish online exactly when it moves the per-email
\* count from 0 to 1, a disconnect to publish offline exactly when it moves
\* it from 1 to 0, and online and offline are published by marked
\* connections only.
C13_PresenceCounters ==
    /\ [](/\ websocketCount = Cardinality({c \in Conns : Counted(c)})
          /\ \A e \in Emails :
                Get(websocketCountByEmail, e) = Cardinality(CountedFor(e))
          /\ \A k \in DOMAIN websocketCountByEmail :
                k # "" /\ websocketCountByEmail[k] > 0)
    /\ [][\A c \in Conns :
            /\ (conn[c].pc = "subbed" /\ conn'[c].pc = "counted") =>
                  (conn'[c].first <=>
                      (conn[c].email # "" /\ CountedFor(conn[c].email) = {}))
            /\ (conn[c].pc = "close" /\ conn'[c].pc = "uncounted") =>
                  (conn'[c].last <=>
                      (conn[c].email # "" /\ CountedFor(conn[c].email) = {c}))
            /\ conn'[c].pc = "online" => conn'[c].first
            /\ (conn[c].pc = "counted" /\ conn'[c].pc = "open") => ~conn[c].first
            /\ (conn[c].pc = "uncounted" /\ conn'[c].pc = "offline") => conn[c].last
            /\ (conn[c].pc = "uncounted" /\ conn'[c].pc = "done") => ~conn[c].last
      ]_vars

\* One connection of a user is about to publish offline while a second
\* connection of the same user has already moved the count back to 1.
C13_Witness ==
    \E c \in Conns, d \in Conns :
        /\ conn[c].pc = "offline"
        /\ conn[d].pc = "online"
        /\ conn[d].email = conn[c].email
        /\ websocketCountByEmail = [e \in {conn[c].email} |-> 1]
        /\ websocketCount = 1

\* ------------------------------------------------------------------ the bus
\* The bus goroutine is in a channel send that can never complete: the
\* channel is full and the connection's write goroutine, its only receiver,
\* has returned. Every later Pub and Unsub waits for the bus goroutine.
Stalled(c) == Len(chan[c]) = Capacity /\ conn[c].writer = "returned"

\* C14: a subscriber that stopped draining its channel never blocks the bus:
\* the bus goroutine is never in a send to a full channel whose writer has
\* returned, so no publish and no Unsub waits forever.
C14_BusNeverBlocks == \A c \in hub.todo : ~Stalled(c)

\* C15: a connection whose read failed (the deadline of pingInterval +
\* pingSlack passed without a frame) gets closed: its reader is never left
\* at Unsub, socket open and still counted, behind a bus goroutine that can
\* no longer take a command.
C15_SilentConnectionClosed ==
    \A c \in Conns :
        conn[c].pc = "unsub" => ~(\E d \in hub.todo : Stalled(d))

\* ------------------------------------------------------------ event order
\* The message the bus goroutine still has to send to the connection.
Pending(c) == IF c \in hub.todo THEN <<hub.msg>> ELSE <<>>

C17_NonAdminsSeeNoPrivateFields ==
    \A r \in Slots, v \in Viewers \ Admins :
        /\ Topics(FALSE, v) \subseteq
              {QueueTopicGeneric, QueueTopicNonPrivileged, QueueTopicEmail(v)}
        /\ (req[r].pc = "mw" /\ req[r].herr = "nil") =>
              LET got == Received(v, req[r].pubd) IN
              \A k \in DOMAIN got :
                  got[k].full =>
                      got[k].id \in Ids /\ View(r)[got[k].id].email = v
        /\ (req[r].op = "snapshot" /\ req[r].who = v) =>
              \A k \in DOMAIN req[r].resp.queue :
                  LET e == req[r].resp.queue[k] IN
                  db[e.id].email # v =>
                      e.email = "" /\ e.helping \in {"", " staff"}

\* A student's snapshot holds the own entry in full and, ahead of it, the
\* entry of another student who is being helped, without email and with the
\* helper's name collapsed.
C17_Witness ==
    \E r \in Slots :
        /\ req[r].op = "snapshot" /\ req[r].who = "s2"
        /\ Len(req[r].resp.queue) = 2
        /\ \E j, k \in 1..2 :
              /\ req[r].resp.queue[j].email = "s2"
              /\ req[r].resp.queue[k].email = ""
              /\ req[r].resp.queue[k].helping = " staff"
              /\ db[req[r].resp.queue[k].id].email = "s1"
              /\ db[req[r].resp.queue[k].id].helping = HelperName

\* ------------------------------------------------------------ display order
\* The comparison of the display order (sortedEntries): pinned first, then
\* being helped, then the higher priority, then the lower id.
sortedEntries(a, b) ==
    IF a.pinned # b.pinned THEN a.pinned
    ELSE IF (a.helping # "") # (b.helping # "") THEN a.helping # ""
    ELSE IF a.priority # b.priority THEN a.priority > b.priority
    ELSE a.id < b.id

\* C18: the entries of every snapshot are in display order: pinned first,
\* then entries being helped, then descending priority, then ascending id.
C18_SnapshotInDisplayOrder ==
    \A r \in Slots :
        req[r].op = "snapshot" =>
            \A j, k \in DOMAIN req[r].resp.queue :
                j < k => sortedEntries(req[r].resp.queue[j], req[r].resp.queue[k])

\* ------------------------------------------------------------- eligibility
\* The queue is open: scheduled and the schedule character of the current
\* half-hour is 'o' or 'p', or not scheduled and manual_open.
IsOpen ==
    \/ config.scheduled
          /\ tables.schedule[clock.weekday][clock.half_hour] \in {"o", "p"}
    \/ ~config.scheduled /\ config.manual_open

\* The first eligibility check that fails for the user, in the fixed order.
FirstFailure(who) ==
    IF who \in Admins THEN "ok"
    ELSE IF ~IsOpen THEN "the queue is closed"
    ELSE IF config.prevent_unregistered /\ who \notin tables.roster
    THEN "you are not in the course roster"
    ELSE IF config.prevent_groups /\ TeammateInQueue(db, who)
    THEN "your teammate is in the queue"
    ELSE IF LastHelpedTime(db, who) # 0
            /\ clock.now - LastHelpedTime(db, who) < config.cooldown
    THEN "you are attempting to sign up too soon"
    ELSE "ok"

\* C19: a signup of a user not on the queue is decided by the first failing
\* check in the order admin, closed, roster, teammate, cooldown: with none
\* failing it goes on to the insert, otherwise it is answered 403 with that
\* check's message, publishes nothing, and its transaction stores nothing.
C19_EligibilityOrder ==
    [][\A r \in Slots :
         /\ (/\ req[r].pc = "idle" /\ req'[r].op = "signup"
             /\ GetActiveQueueEntriesForUser(db, req'[r].who) = {}) =>
                IF FirstFailure(req'[r].who) = "ok"
                THEN req'[r].pc = "write"
                ELSE /\ req'[r].pc = "mw"
                     /\ req'[r].status = StatusForbidden
                     /\ req'[r].msg = FirstFailure(req'[r].who)
                     /\ req'[r].pubd = <<>>
                     /\ req'[r].locks = {}
         /\ (/\ req[r].op = "signup" /\ req[r].pc = "mw"
             /\ req[r].status = StatusForbidden) => db' = db
      ]_vars

\* C20: the open flag of every snapshot is the open predicate, and the closed
\* check of a signup (a user who is no admin and not on the queue) refuses
\* exactly when the open predicate is false: the two decisions agree.
C20_OpenDecisionsAgree ==
    /\ [](\A r \in Slots : req[r].op = "snapshot" => req[r].resp.open = IsOpen)
    /\ [][\A r \in Slots :
            (/\ req[r].pc = "idle" /\ req'[r].op = "signup"
             /\ req'[r].who \notin Admins
             /\ GetActiveQueueEntriesForUser(db, req'[r].who) = {}) =>
                (req'[r].msg = "the queue is closed" <=> ~IsOpen)
      ]_vars

\* ------------------------------------------------------------------ priority
\* The email has an entry of today that is helped and was removed by
\* someone else.
HelpedByOtherToday(email) ==
    \E i \in Ids :
        /\ db[i].exists /\ db[i].email = email
        /\ i >= clock.first_id_of_day
        /\ db[i].helped
        /\ db[i].removed_by \notin {"", email}

\* C21: a new entry gets priority 0 when prioritize_new is off; otherwise 0
\* if its email has an entry of today that is helped and was removed by
\* someone else, otherwise 0 if prevent_groups_boost is on and a teammate has
\* such an entry, otherwise 1; and that priority is the one inserted.
C21_PriorityOfNewEntry ==
    [][\A r \in Slots :
         /\ (req[r].pc = "idle" /\ req'[r].op = "signup" /\ req'[r].pc = "write") =>
               req'[r].rd.priority =
                  IF ~config.prioritize_new THEN 0
                  ELSE IF HelpedByOtherToday(req'[r].who) THEN 0
                  ELSE IF /\ config.prevent_groups_boost
                          /\ \E t \in Emails :
                                /\ <<req'[r].who, t>> \in tables.teammates
                                /\ HelpedByOtherToday(t)
                  THEN 0
                  ELSE 1
         /\ (/\ req[r].op = "signup" /\ req[r].pc = "write"
             /\ req'[r].pc = "mw" /\ req'[r].status = StatusCreated) =>
               req'[r].txw[req'[r].id].priority = req[r].rd.priority
      ]_vars

\* A student whose first entry of the day got priority 1 and was removed by
\* the admin has signed up again the same day and got priority 0.
C21_Witness ==
    \E r \in Slots :
        /\ req[r].op = "signup" /\ req[r].pc = "mw"
        /\ req[r].status = StatusCreated
        /\ config.prioritize_new /\ ~config.prevent_groups_boost
        /\ clock.first_id_of_day = 1
        /\ db[1].email = req[r].who /\ db[1].priority = 1
        /\ db[1].removed_by = "a" /\ db[1].helped
        /\ req[r].txw[2].exists /\ req[r].txw[2].priority = 0

\* ------------------------------------------------------------------ cooldown
\* C22: a signup of a user who is no admin, not on the queue and last helped
\* (removed by someone else) at time t is refused by the cooldown c iff
\* now - t < c, and the refusal names the remaining time c - (now - t):
\* "N seconds" under a minute, "a minute" from one to under two minutes,
\* "N minutes" (whole minutes) from two minutes on; 30 seconds after the
\* removal under a cooldown of 60 it is "30 seconds".
C22_CooldownMessage ==
    [][\A r \in Slots :
         (/\ req[r].pc = "idle" /\ req'[r].op = "signup"
          /\ req'[r].who \notin Admins
          /\ GetActiveQueueEntriesForUser(db, req'[r].who) = {}
          /\ LastHelpedTime(db, req'[r].who) # 0) =>
            LET t == LastHelpedTime(db, req'[r].who)
                c == config.cooldown
                remaining == c - (clock.now - t)
            IN /\ (req'[r].status = StatusForbidden) <=> (clock.now - t < c)
               /\ clock.now - t < c =>
                    /\ req'[r].msg = "you are attempting to sign up too soon"
                    /\ remaining < 60 =>
                          req'[r].wait = ToString(remaining) \o " seconds"
                    /\ (60 <= remaining /\ remaining < 120) =>
                          req'[r].wait = "a minute"
                    /\ remaining >= 120 =>
                          req'[r].wait = ToString(remaining \div 60) \o " minutes"
                    /\ (c = 60 /\ clock.now = t + 30) =>
                          req'[r].wait = "30 seconds"
      ]_vars


\* C23: the clear statement takes every entry that is active and no other,
\* leaves no active entry in the transaction's view, and its commit stores
\* all of them in one step: each entry it archived ends with active NULL,
\* removed_by the remover, removed_at set, helping "", pinned false and
\* helped false, and every other entry is unchanged.
C23_ClearArchivesAll ==
    [][\A r \in Slots :
         /\ (req[r].op = "clear" /\ req[r].pc = "write" /\ req'[r].pc = "mw") =>
               LET after == [i \in Ids |-> IF i \in req'[r].locks
                                           THEN req'[r].txw[i] ELSE db'[i]]
               IN /\ req'[r].locks = {i \in Ids : IsActive(db[i])}
                  /\ \A i \in Ids : ~IsActive(after[i])
         /\ (req[r].op = "clear" /\ req[r].pc = "mw" /\ req[r].herr = "nil"
             /\ req'[r].pc = "idle") =>
               \A i \in Ids :
                  IF i \in req[r].locks
                  THEN /\ db'[i].active = "NULL"
                       /\ db'[i].removed_by = req[r].who
                       /\ db'[i].removed_at # 0
                       /\ db'[i].helping = ""
                       /\ ~db'[i].pinned
                       /\ ~db'[i].helped
                       /\ db'[i].email = db[i].email
                  ELSE db'[i] = db[i]
      ]_vars

\* The QUEUE_CLEAR events of evs on a topic.
ClearEvents(evs, topic) ==
    SelectSeq(evs, LAMBDA m : m.e = "QUEUE_CLEAR" /\ m.topic = topic)

\* C24: when an admin clears a queue with active entries, the admin topic
\* gets exactly one QUEUE_CLEAR, carrying the admin's email, the non-priv
\* topic exactly one, carrying null, and once the clear has committed the
\* snapshot has an empty queue and every cleared entry is in the stack with
\* helped true and pinned false.
C24_ClearEventsAndStack ==
    [][\A r \in Slots :
         /\ (req[r].op = "clear" /\ req[r].pc = "write" /\ req'[r].pc = "mw"
             /\ req'[r].locks # {}) =>
               LET adm == ClearEvents(req'[r].pubd, QueueTopicAdmin)
                   non == ClearEvents(req'[r].pubd, QueueTopicNonPrivileged)
               IN /\ Len(adm) = 1 /\ adm[1].who = req[r].who
                  /\ Len(non) = 1 /\ non[1].who = ""
         /\ (req[r].op = "clear" /\ req[r].pc = "mw" /\ req[r].herr = "nil"
             /\ req'[r].pc = "idle" /\ req[r].locks # {}) =>
               LET stack == GetQueueStack(db', StackLimit) IN
               /\ GetQueueEntries(db', TRUE) = <<>>
               /\ \A i \in req[r].locks :
                     \E k \in DOMAIN stack :
                        /\ stack[k].id = i
                        /\ stack[k].helped
                        /\ ~stack[k].pinned
      ]_vars

\* C25: a removal by a user who is neither a course admin nor the entry's
\* owner is answered 403, publishes nothing and leaves the store as it was;
\* a removal that succeeds was asked by an admin or the owner, and its commit
\* leaves the entry with active NULL, removed_at set, removed_by the remover,
\* helped true, helping "" and pinned false.
C25_RemovePermission ==
    [][\A r \in Slots :
         /\ (/\ req[r].pc = "idle" /\ req'[r].op = "remove"
             /\ req'[r].who \notin Admins
             /\ ~(db[req'[r].id].exists /\ db[req'[r].id].email = req'[r].who)) =>
               /\ req'[r].status = StatusForbidden
               /\ req'[r].pc = "mw" /\ req'[r].herr = "StatusError"
               /\ req'[r].pubd = <<>>
         /\ (/\ req[r].op = "remove" /\ req[r].status = StatusForbidden
             /\ req'[r].pc = "idle") =>
               db' = db
         /\ (/\ req[r].op = "remove" /\ req[r].pc = "mw"
             /\ req[r].status = StatusNoContent /\ req'[r].pc = "idle") =>
               LET i == req[r].id IN
               /\ req[r].who \in Admins \/ db[i].email = req[r].who
               /\ db'[i].exists /\ db'[i].active = "NULL"
               /\ db'[i].removed_at # 0
               /\ db'[i].removed_by = req[r].who
               /\ db'[i].helped /\ db'[i].helping = "" /\ ~db'[i].pinned
      ]_vars

\* A student was refused the removal of another student's active entry.
C25_Witness ==
    \E r \in Slots :
        /\ req[r].op = "remove" /\ req[r].status = StatusForbidden
        /\ req[r].who \notin Admins
        /\ IsActive(db[req[r].id]) /\ db[req[r].id].email # req[r].who

ValidDescription(d, prompts) ==
    IF prompts = <<>>
    THEN /\ d.chars > 0 /\ d.chars <= 1500
         /\ d.kind \notin {"strings", "array", "object"}
    ELSE /\ d.kind = "strings" /\ Len(d.elems) = Len(prompts)
         /\ \A k \in DOMAIN d.elems : d.elems[k] \notin {"", " "}

\* The request passed every check before the description's.
Validated(rq) ==
    /\ rq.op \in {"signup", "update"}
    /\ rq.status \notin {StatusConflict, StatusForbidden, StatusNotFound}
    /\ rq.body.decodes /\ rq.body.location.len <= maxLocationLength

\* C27: a signup or update that reaches the description check goes on to its
\* insert or update iff the description is a valid one; a JSON array of
\* strings of the wrong length under n prompts is answered with a message
\* naming n and the length received; every refused description is answered
\* 400 and its request writes nothing.
C27_DescriptionValidator ==
    [][\A r \in Slots :
         /\ (req[r].pc = "idle" /\ Validated(req'[r])) =>
               LET d == req'[r].body.description
                   n == Len(config.prompts)
               IN /\ (req'[r].pc = "write") <=> ValidDescription(d, config.prompts)
                  /\ req'[r].pc # "write" =>
                        /\ req'[r].status = StatusBadRequest
                        /\ req'[r].pc = "mw" /\ req'[r].herr = "StatusError"
                  /\ (n > 0 /\ d.kind = "strings" /\ Len(d.elems) # n
                      /\ d.len <= maxDescriptionLength) =>
                        req'[r].msg = "wrong number of prompt responses, expected "
                                         \o ToString(n) \o " got "
                                         \o ToString(Len(d.elems))
         /\ (req[r].status = StatusBadRequest /\ req'[r].pc = "idle") => db' = db
      ]_vars

\* A day string as the specification has it: one character per half-hour,
\* each of o, c, p.
DayString(str) ==
    /\ DOMAIN str = 1..HalfHours
    /\ \A h \in DOMAIN str : str[h] \in {"o", "c", "p"}

\* C28: the stored schedule always has its 7 weekday rows, each a day string
\* over {o, c, p}; a request whose body is no list of 7 such strings (a
\* string of another length or with another character, another number of
\* strings, no list at all) is answered 400, changes no row and publishes
\* no REFRESH.
C28_ScheduleShape ==
    /\ [](/\ DOMAIN tables.schedule = 0..(Days - 1)
          /\ \A d \in DOMAIN tables.schedule : DayString(tables.schedule[d]))
    /\ [][\A r \in Slots :
            (/\ req[r].pc = "idle" /\ req'[r].op = "schedule"
             /\ ~(/\ req'[r].body.decodes
                  /\ Len(req'[r].body.schedules) = Days
                  /\ \A i \in DOMAIN req'[r].body.schedules :
                        DayString(req'[r].body.schedules[i]))) =>
               /\ req'[r].status = StatusBadRequest
               /\ tables' = tables
               /\ req'[r].pubd = <<>>
        ]_vars

\* C29: a request one of whose store calls failed is answered 500 with the
\* generic body, never with another status; only a denial the handler
\* decided on reaches the client as a StatusError with its status and
\* message; no message carries the text of the backend's error.
C29_OnlyDenialsKeepTheirStatus ==
    \A r \in Slots :
        req[r].pc = "mw" =>
            /\ req[r].fault # "" =>
                  /\ req[r].status = StatusInternalServerError
                  /\ req[r].herr = "error"
                  /\ req[r].msg = ""
            /\ req[r].herr = "StatusError" => req[r].fault = ""
            /\ req[r].msg # CanAddEntryFailure

\* C30: every archived entry has removed_at set, and an archival of an entry
\* never records a removed_at earlier than the one its previous archival
\* recorded.
C30_RemovedAtMonotone ==
    /\ [](\A i \in Ids :
             (db[i].exists /\ db[i].active = "NULL") => db[i].removed_at # 0)
    /\ [][\A i \in Ids :
             (IsActive(db[i]) /\ db'[i].exists /\ db'[i].active = "NULL") =>
                 db'[i].removed_at >= db[i].last_removed_at
        ]_vars

\* The connection is off the bus, its socket closed and its presence taken
\* back; and the state the write loop leaves behind when a write fails.
Closed(c) == ~Subscribed(c) /\ ~SocketOpen(c) /\ ~Counted(c)
WriterFailed(c) == Subscribed(c) /\ conn[c].writer = "returned"

\* C31: a failure of the writer, like a failure of the reader, eventually
\* leads to the connection being unsubscribed from the bus, its socket closed
\* and its presence decremented; no connection stays subscribed with a write
\* goroutine that has returned.
C31_FailureClosesConnection ==
    /\ (conn[LiveConn].pc = "unsub") ~> Closed(LiveConn)
    /\ WriterFailed(LiveConn) ~> Closed(LiveConn)

\* ------------------------------------------------------- helped by staff
\* The request whose transaction commits in this step.
Commits(r, op) ==
    /\ req[r].op = op /\ req[r].pc = "mw" /\ req[r].herr = "nil"
    /\ req'[r].pc = "idle"

\* C32: an entry removed by its own owner does not count as helped by staff:
\* the removal changes neither the owner's LastHelpedTime and eligibility
\* nor the priority of the owner's next signup; the same removal by an admin
\* sets LastHelpedTime to the removal (a signup within the cooldown is
\* refused) and, for an entry of today, makes the next priority 0.
C32_OwnRemovalIsNoHelp ==
    [][\A r \in Slots, i \in Ids :
         (/\ Commits(r, "remove")
          /\ IsActive(db[i]) /\ db'[i].exists /\ db'[i].active = "NULL") =>
            LET e == db[i].email IN
            IF db'[i].removed_by = e
            THEN /\ LastHelpedTime(db', e) = LastHelpedTime(db, e)
                 /\ CanAddEntry(db', e) = CanAddEntry(db, e)
                 /\ GetEntryPriority(db', e) = GetEntryPriority(db, e)
            ELSE /\ db'[i].removed_at > 0
                 /\ LastHelpedTime(db', e) >= db'[i].removed_at
                 /\ (clock.now - db'[i].removed_at < config.cooldown) =>
                       CanAddEntry(db', e) = "you are attempting to sign up too soon"
                 /\ (i >= firstIDOfDay /\ config.prioritize_new) =>
                       GetEntryPriority(db', e) = 0
      ]_vars

\* s1 removed its own first entry of the day and, still within what would
\* be the cooldown, signed up again and got priority 1.
C32_Witness ==
    /\ db[1].exists /\ db[1].email = "s1" /\ db[1].active = "NULL"
    /\ db[1].removed_by = "s1" /\ db[1].helped
    /\ clock.first_id_of_day = 1
    /\ clock.now - db[1].removed_at < config.cooldown
    /\ req[Slot1].op = "signup" /\ req[Slot1].pc = "mw"
    /\ req[Slot1].status = StatusCreated
    /\ req[Slot1].txw[2].exists /\ req[Slot1].txw[2].email = "s1"
    /\ req[Slot1].txw[2].priority = 1

\* Another entry of the email that counts as helped by staff.
OtherHelp(v, i, email) ==
    \E j \in Ids \ {i} :
        /\ v[j].exists /\ v[j].email = email /\ v[j].helped
        /\ v[j].removed_by \notin {"", email}

\* C33: once set_not_helped of an entry is committed, the entry is not
\* helped and no longer counts as its owner's help of the day; with no other
\* helped entry the owner's next signup gets priority 1 under prioritize_new
\* and is not refused by the cooldown; the request published one NOT_HELPED
\* on the owner's topic and one ENTRY_UPDATE on the admin topic.
C33_NotHelpedUndoesHelp ==
    [][\A r \in Slots, i \in Ids :
         (/\ Commits(r, "not_helped") /\ req[r].id = i
          /\ req[r].status = StatusNoContent) =>
            LET e == db[i].email IN
            /\ db'[i] = [db[i] EXCEPT !.helped = FALSE]
            /\ i \notin HelpedToday(db', e)
            /\ ~OtherHelp(db, i, e) =>
                  /\ config.prioritize_new => GetEntryPriority(db', e) = 1
                  /\ LastHelpedTime(db', e) = 0
                  /\ CanAddEntry(db', e) = "ok"
            /\ CountEv(req[r].pubd, "NOT_HELPED", QueueTopicEmail(e)) = 1
            /\ CountEv(req[r].pubd, "ENTRY_UPDATE", QueueTopicAdmin) = 1
            /\ Len(req[r].pubd) = 2
      ]_vars

\* The admin removed s1's first entry of the day, which cost s1 the boost
\* and started the cooldown, and has marked it not helped: with that change
\* s1's next signup is admitted and gets priority 1.
C33_Witness ==
    /\ req[Slot1].op = "not_helped" /\ req[Slot1].pc = "mw"
    /\ req[Slot1].status = StatusNoContent /\ req[Slot1].id = 1
    /\ db[1].email = "s1" /\ db[1].active = "NULL" /\ db[1].removed_by = "a"
    /\ db[1].helped
    /\ GetEntryPriority(db, "s1") = 0
    /\ CanAddEntry(db, "s1") = "you are attempting to sign up too soon"
    /\ GetEntryPriority(View(Slot1), "s1") = 1
    /\ CanAddEntry(View(Slot1), "s1") = "ok"

\* ------------------------------------------------------------ transactions
\* The transaction BeginTx opened for the request is neither committed nor
\* rolled back.
TxOpen(r) == req[r].pc \in {"write", "mw", "recovered"}

\* C34: every transaction the middleware begins is eventually committed or
\* rolled back, however the handler ends, a recovered panic included.
C34_TransactionsEnd == \A r \in Slots : TxOpen(r) ~> ~TxOpen(r)

\* ----------------------------------------------------------------- presence
\* No connect and no disconnect is in progress.
Settled == \A c \in Conns : conn[c].pc \in {"free", "open", "done"}

\* C35: once no connect or disconnect is in progress, the last
\* USER_STATUS_UPDATE published for an email says "online" iff the email has
\* an open connection: a publish of "offline" that leaves everything settled
\* leaves the email without a connection, one of "online" leaves it with one.
C35_LastStatusMatchesPresence ==
    [][\A c \in Conns :
         /\ (conn[c].pc = "offline" /\ conn'[c].pc = "done" /\ Settled') =>
               Get(websocketCountByEmail', conn[c].email) = 0
         /\ (conn[c].pc = "online" /\ conn'[c].pc = "open" /\ Settled') =>
               Get(websocketCountByEmail', conn[c].email) > 0
      ]_vars

\* ---------------------------------------------------------------- front-end
\* C36: with every request finished, a front-end that loaded the snapshot
\* and handled every event it was sent holds the entries of a fresh
\* snapshot: the same ids, each in full where the snapshot has it in full.
C36_EventsRebuildSnapshot ==
    (\A r \in Slots : req[r].pc = "idle") =>
        \A w \in Watchers : client[w] = SnapshotEntries(w)

\* ------------------------------------------------------------ other queues
\* C37: a request on queue Q's URL changes no entry of another queue and
\* publishes no event about one on Q's topics.
C37_OnlyEntriesOfTheQueue ==
    /\ [][\A i \in Ids :
             (db[i].exists /\ db[i].queue # QueueID) => db'[i] = db[i]]_vars
    /\ [](\A r \in Slots : \A k \in DOMAIN req[r].pubd :
             req[r].pubd[k].id # 0 =>
                 View(r)[req[r].pubd[k].id].queue = QueueID)

\* ------------------------------------------------------- update and remove
\* C38: an update that answers 204 and publishes ENTRY_UPDATE has written
\* the entry while it was active, and once committed the stored name,
\* description and location are the published ones; an update of an entry
\* archived before it answers 404 and publishes nothing.
C38_UpdateSucceedsOnlyIfApplied ==
    /\ [](\A r \in Slots :
            (req[r].op = "update" /\ req[r].pc = "mw") =>
               /\ (req[r].status = StatusNoContent \/ req[r].pubd # <<>>) =>
                     /\ req[r].id \in req[r].locks
                     /\ IsActive(req[r].txw[req[r].id])
               /\ ~IsActive(View(r)[req[r].id]) =>
                     req[r].status = StatusNotFound /\ req[r].pubd = <<>>)
    /\ [][\A r \in Slots :
            (Commits(r, "update") /\ req[r].status = StatusNoContent) =>
               LET i == req[r].id IN
               /\ db'[i].name = Name(req[r].who)
               /\ db'[i].description = req[r].body.description
               /\ db'[i].location = req[r].body.location
        ]_vars

\* ------------------------------------------------------------ configuration
\* The fields of the configuration other than manual_open.
OtherFields == DOMAIN config \ {"manual_open"}

\* C39: a configuration update leaves manual_open as it was, whatever the
\* body names for it, and stores every other field of the body; set_open
\* stores manual_open and leaves every other field; nothing else changes
\* the configuration.
C39_ManualOpenIsSetOpensAlone ==
    [][/\ \A cfg \in ConfigurationBodies :
             UpdateQueueConfiguration(Slot1, cfg) =>
                /\ config'.manual_open = config.manual_open
                /\ \A f \in OtherFields : config'[f] = cfg[f]
       /\ \A open \in BOOLEAN :
             UpdateQueueOpenStatus(Slot1, open) =>
                /\ config'.manual_open = open
                /\ \A f \in OtherFields : config'[f] = config[f]
       /\ config' # config =>
             \/ \E cfg \in ConfigurationBodies :
                   UpdateQueueConfiguration(Slot1, cfg)
             \/ \E open \in BOOLEAN : UpdateQueueOpenStatus(Slot1, open)
      ]_vars

\* The queue was closed by set_open and then configured with prompts and the
\* roster check.
C39_Witness ==
    /\ ~config.manual_open
    /\ config.prompts = <<"A", "B">>
    /\ config.prevent_unregistered

\* C40: the description of every entry on the queue is valid for the
\* prompts the queue is configured with now: a text without prompts, one
\* non-blank response per prompt otherwise.
C40_ActiveDescriptionsFitPrompts ==
    \A i \in Ids :
        IsActive(db[i]) => ValidDescription(db[i].description, config.prompts)

=========================================================================
